---- MODULE Spec2Model ----
(***************************************************************************)
(* A model of the copy-trading engine: the Bot's ledger (portfolio), the   *)
(* Buy / Sell actions, the TokenRegistry, the CopyStrategy accumulators,   *)
(* the StopLossStrategy trackers, the SizingStrategy, the EventBus fan-out, *)
(* the BotManager's token reference counts and the DexScreenerPoller (its  *)
(* poll cycle, start_polling and stop_polling).                            *)
(*                                                                         *)
(* Python values are modelled as follows.                                  *)
(*   - a dict is a function whose DOMAIN is the set of keys present;       *)
(*   - an Optional value is <<>> (None, or a key that is absent) or <<v>>; *)
(*   - quantities, prices and weights are integers (the source uses        *)
(*     floats; the inputs are chosen so that every division is exact);     *)
(*   - a method is an operator from the state it reads to the state it     *)
(*     leaves, with a field telling how it ended (returned / raised).      *)
(***************************************************************************)
EXTENDS Integers, Sequences, FiniteSets, TLC

VARIABLES
    portfolio,           \* Bot._portfolio : dict[(address, network), quantity]
    registry,            \* TokenRegistry._registry : dict[(address, network), Token]
    token_accumulators,  \* CopyStrategy.token_accumulators
    strategies,          \* Bot._strategies : the event kinds with a strategy
    actions,             \* Bot._actions : the names with an action (the dict, under SpecActions)
    tasks,               \* handler coroutines created by EventBus.publish
    pc,                  \* the position of each caller of EventBus.publish
    call,                \* the direct call a caller has issued, if any
    last,                \* observation: the last call or handler run and its outcome
    snap,                \* observation: the state in which two publish calls overlapped
    token_trackers,      \* StopLossStrategy.token_trackers
    subscribers,         \* EventBus._subscribers : dict[kind, list of callbacks]
    deliveries,          \* the gather of each publish call: its handler tasks
    received,            \* what each subscribed callback has been called with
    bots,                \* the Bot objects by name: strategies, ledger, strategy state
    manager_bots,        \* BotManager._bots : the names registered
    token_subscribers,   \* BotManager._token_subscribers : (network, address) -> count
    subscribed_tokens,   \* DexScreenerPoller._subscribed_tokens
    held,                \* observation: the subscribe_token calls made for each bot
    polling_task,        \* DexScreenerPoller._polling_task
    loop_tasks,          \* the _polling_loop tasks created so far and their position
    batch_tasks,         \* the _process_batch tasks of each loop's cycle in flight
    fetches,             \* observation: the fetches issued in the cycle in flight
    published            \* observation: the market-cap events published in it

stopVars == <<token_trackers>>

busVars == <<subscribers, deliveries, received>>

mgrVars == <<bots, manager_bots, token_subscribers, subscribed_tokens, held>>

pollVars == <<polling_task, loop_tasks, batch_tasks, fetches, published>>

vars == <<portfolio, registry, token_accumulators, strategies, actions, tasks,
          pc, call, last, snap, stopVars, busVars, mgrVars, pollVars>>

-----------------------------------------------------------------------------
(* Optional values and dicts *)

None == <<>>

Some(v) == <<v>>

\* Python truthiness of an Optional number: None and 0 are falsy.
Truthy(o) == o # None /\ o[1] # 0

\* dict.get(key, 0)
Get(d, key) == IF key \in DOMAIN d THEN d[key] ELSE 0

\* d[key] = value
Put(d, key, value) ==
    [k \in (DOMAIN d) \cup {key} |-> IF k = key THEN value ELSE d[k]]

EmptyDict == [k \in {} |-> 0]

Min(a, b) == IF a < b THEN a ELSE b

-----------------------------------------------------------------------------
(* Bounds of the model *)

\* largest quantity / delta passed to a direct ledger call
MaxQty == 2

\* largest quantity one portfolio entry may reach (guards cap the growth)
MaxHold == 2

\* largest number of subscriptions one event kind may have
MaxSubs == 2

\* largest market cap of a token handed to the sizing strategy
MaxCap == 4

-----------------------------------------------------------------------------
(* Tokens *)

BASE == <<"sol", "solana">>

TK1 == <<"tk1", "solana">>

TK2 == <<"tk2", "solana">>

TokenKeys == {BASE, TK1, TK2}

\* The token dict of a signal or of trade data (name and symbol are only logged).
TokenData(key, price, market_cap) ==
    [address |-> key[1], network |-> key[2], price |-> price, market_cap |-> market_cap]

KeyOf(token_data) == <<token_data.address, token_data.network>>

-----------------------------------------------------------------------------
(* TokenRegistry *)

\* TokenRegistry.get_or_create_token: an existing Token is returned as it is,
\* a new one is registered with the fields of the token dict.
get_or_create_token(reg, token_data) ==
    IF KeyOf(token_data) \in DOMAIN reg
    THEN reg
    ELSE Put(reg, KeyOf(token_data),
             [price |-> token_data.price, market_cap |-> token_data.market_cap])

-----------------------------------------------------------------------------
(* Bot: the ledger *)

\* update_portfolio without its guard
update_portfolio_unchecked(p, token_key, new_quantity) ==
    [raised |-> FALSE, portfolio |-> Put(p, token_key, new_quantity)]

\* Bot.update_portfolio
update_portfolio(p, token_key, new_quantity) ==
    IF new_quantity < 0
    THEN [raised |-> TRUE, portfolio |-> p]
    ELSE [raised |-> FALSE, portfolio |-> Put(p, token_key, new_quantity)]

\* add_to_portfolio without its guard
add_to_portfolio_unchecked(p, token_key, quantity) ==
    [raised |-> FALSE, portfolio |-> Put(p, token_key, Get(p, token_key) + quantity)]

\* add_to_portfolio storing the quantity instead of adding it
add_to_portfolio_overwrite(p, token_key, quantity) ==
    IF quantity < 0
    THEN [raised |-> TRUE, portfolio |-> p]
    ELSE [raised |-> FALSE, portfolio |-> Put(p, token_key, quantity)]

\* Bot.add_to_portfolio
add_to_portfolio(p, token_key, quantity) ==
    LET current == Get(p, token_key)
        new_quantity == current + quantity
    IN  IF new_quantity < 0
        THEN [raised |-> TRUE, portfolio |-> p]
        ELSE [raised |-> FALSE, portfolio |-> Put(p, token_key, new_quantity)]

\* Bot.get_position
get_position(p, token_key) == Get(p, token_key)

\* Bot.portfolio (the property): a copy of the dict. Writing into the copy
\* leaves Bot._portfolio as it is, so a write through the property is the
\* identity on the ledger.
portfolio_copy_write(p, token_key, value) == p

-----------------------------------------------------------------------------
(* Buy / Sell actions *)

\* Trade data: token is an Optional token dict, price is the Optional "price"
\* key, quantity the "quantity" key (0 when absent).
TradeData(token, price, quantity) ==
    [token |-> token, price |-> price, quantity |-> quantity]

\* data.get("price", token.price): the key when present, else the price of the
\* registered Token (which may be None).
TradePrice(reg, data) ==
    IF data.price # None THEN data.price ELSE reg[KeyOf(data.token[1])].price

\* Buy.execute crediting the purchased token before it checks the balance
BuyExecuteCreditFirst(p, reg, base_token, data) ==
    IF data.token = None \/ data.quantity <= 0 \/ data.price = None
    THEN [portfolio |-> p, registry |-> reg, result |-> "no_token"]
    ELSE
    LET reg1 == get_or_create_token(reg, data.token[1])
        cost == data.price[1] * data.quantity
        credit == Put(p, KeyOf(data.token[1]),
                      Get(p, KeyOf(data.token[1])) + data.quantity)
    IN  IF Get(p, base_token) < cost
        THEN [portfolio |-> credit, registry |-> reg1, result |-> "insufficient"]
        ELSE [portfolio |-> Put(credit, base_token, Get(credit, base_token) - cost),
              registry |-> reg1, result |-> "bought"]

\* Buy.execute(data, bot) with Buy.base_token = base_token.
\* result: "no_token", "bad_quantity", "raised" (price is None: TypeError),
\* "insufficient", "bought".
BuyExecute(p, reg, base_token, data) ==
    IF data.token = None
    THEN [portfolio |-> p, registry |-> reg, result |-> "no_token"]
    ELSE
    LET reg1 == get_or_create_token(reg, data.token[1])
        token_key == KeyOf(data.token[1])
        quantity == data.quantity
        price == TradePrice(reg1, data)
    IN  IF quantity <= 0
        THEN [portfolio |-> p, registry |-> reg1, result |-> "bad_quantity"]
        ELSE IF price = None
        THEN [portfolio |-> p, registry |-> reg1, result |-> "raised"]
        ELSE
        LET cost == price[1] * quantity
            base_balance == Get(p, base_token)
        IN  IF base_balance < cost
            THEN [portfolio |-> p, registry |-> reg1, result |-> "insufficient"]
            ELSE
            LET debit == add_to_portfolio(p, base_token, -cost)
                credit == add_to_portfolio(debit.portfolio, token_key, quantity)
            IN  IF debit.raised
                THEN [portfolio |-> debit.portfolio, registry |-> reg1,
                      result |-> "raised"]
                ELSE IF credit.raised
                THEN [portfolio |-> credit.portfolio, registry |-> reg1,
                      result |-> "raised"]
                ELSE [portfolio |-> credit.portfolio, registry |-> reg1,
                      result |-> "bought"]

\* Sell.execute(data, bot) with Sell.base_token = base_token.
\* Both writes go through the Bot.portfolio property, i.e. into copies.
\* result: "no_token", "bad_quantity", "no_position", "raised", "sold".
SellExecute(p, reg, base_token, data) ==
    IF data.token = None
    THEN [portfolio |-> p, registry |-> reg, result |-> "no_token"]
    ELSE
    LET reg1 == get_or_create_token(reg, data.token[1])
        token_key == KeyOf(data.token[1])
        quantity == data.quantity
        price == TradePrice(reg1, data)
        current_position == Get(p, token_key)
    IN  IF quantity <= 0
        THEN [portfolio |-> p, registry |-> reg1, result |-> "bad_quantity"]
        ELSE IF current_position <= 0
        THEN [portfolio |-> p, registry |-> reg1, result |-> "no_position"]
        ELSE
        LET sell_quantity == IF quantity < current_position
                             THEN quantity ELSE current_position
            p1 == portfolio_copy_write(p, token_key, current_position - sell_quantity)
        IN  IF price = None
            THEN [portfolio |-> p1, registry |-> reg1, result |-> "raised"]
            ELSE
            LET revenue == sell_quantity * price[1]
                base_balance == Get(p1, base_token)
                p2 == portfolio_copy_write(p1, base_token, base_balance + revenue)
            IN  [portfolio |-> p2, registry |-> reg1, result |-> "sold"]

-----------------------------------------------------------------------------
(* SizingStrategy *)

\* Buy(self.base_token), Sell(self.base_token)
BaseToken == BASE

\* the event kinds the builder registers a strategy for (each set_strategy
\* also subscribes Bot.handle_event, here "bot", to the kind)
EventKinds == {"RAY_BOT", "POSITION_SIZING", "MARKET_CAP_UPDATE"}

\* SizingStrategy.max_market_cap and max_quantity (constructor arguments)
max_market_cap == 2

max_quantity == 2

\* get_position_size without the min: the quantity grows with the market cap
get_position_size_unclamped(token_meta) ==
    IF token_meta.market_cap = None \/ ~Truthy(token_meta.price)
    THEN 0
    ELSE (max_quantity * token_meta.market_cap[1]) \div max_market_cap

\* SizingStrategy.get_position_size(bot, token_meta)
get_position_size(token_meta) ==
    IF token_meta.market_cap = None \/ ~Truthy(token_meta.price)
    THEN 0
    ELSE (max_quantity * Min(token_meta.market_cap[1], max_market_cap))
            \div max_market_cap

-----------------------------------------------------------------------------
(* CopyStrategy *)

\* CopyStrategy.trader_weights, buy_threshold, sell_threshold (constructor
\* arguments)
trader_weights == [w \in {"A", "B"} |-> IF w = "A" THEN 1 ELSE 2]

buy_threshold == 3

sell_threshold == 2

\* SignalType.BUY.value, SignalType.SELL.value
SignalBUY == "BUY"

SignalSELL == "SELL"

\* A RayMessage: wallet and action are Optional strings, token an Optional
\* token dict, amount a number (0 or None: missing).
RayMessage(wallet, action, token, amount) ==
    [wallet |-> wallet, action |-> action, token |-> token, amount |-> amount]

\* TokenAccumulator(token_meta=...), buy_weight = sell_weight = 0
TokenAccumulator(token_meta) ==
    [token_meta |-> token_meta, buy_weight |-> 0, sell_weight |-> 0]

\* add_signal clearing the weight of the other side
add_signal_one_sided(acc, weight, is_buy) ==
    IF is_buy
    THEN [acc EXCEPT !.buy_weight = acc.buy_weight + weight, !.sell_weight = 0]
    ELSE [acc EXCEPT !.sell_weight = acc.sell_weight + weight, !.buy_weight = 0]

\* TokenAccumulator.add_signal
add_signal(acc, weight, is_buy) ==
    IF is_buy
    THEN [acc EXCEPT !.buy_weight = acc.buy_weight + weight]
    ELSE [acc EXCEPT !.sell_weight = acc.sell_weight + weight]

\* _validate_signal without the check of the copy list
validate_signal_fields_only(data) ==
    /\ data.wallet # None
    /\ data.action # None
    /\ data.token # None
    /\ data.amount # 0

\* CopyStrategy._validate_signal
validate_signal(data) ==
    /\ data.wallet # None
    /\ data.action # None
    /\ data.token # None
    /\ data.amount # 0
    /\ data.wallet[1] \in DOMAIN trader_weights

\* the comparison of an accumulated weight with its threshold, off by one
ReachedStrictly(weight, threshold) == weight > threshold

\* token_acc.buy_weight >= self.buy_threshold (and the same for sell)
Reached(weight, threshold) == weight >= threshold

\* CopyStrategy._process_signal(data, bot): the accumulators it leaves and the
\* trade decision it returns (None, or the action of (action, token_acc)).
\* raised: data.token is None (TypeError) or the wallet has no weight (KeyError).
process_signal(accs, p, data) ==
    IF data.token = None
    THEN [accs |-> accs, decision |-> None, raised |-> TRUE, note |-> "raised"]
    ELSE
    LET token_key == KeyOf(data.token[1])
        current_position == Get(p, token_key)
        has_position == current_position > 0
        accs1 == IF token_key \in DOMAIN accs THEN accs
                 ELSE Put(accs, token_key, TokenAccumulator(data.token[1]))
        token_acc == accs1[token_key]
        known == data.wallet # None /\ data.wallet[1] \in DOMAIN trader_weights
    IN  CASE data.action = Some(SignalBUY) ->
               IF ~known
               THEN [accs |-> accs1, decision |-> None, raised |-> TRUE,
                     note |-> "raised"]
               ELSE
               LET added == add_signal(token_acc, trader_weights[data.wallet[1]], TRUE)
               IN  IF Reached(added.buy_weight, buy_threshold)
                   THEN [accs |-> Put(accs1, token_key,
                                      [added EXCEPT !.buy_weight = 0]),
                         decision |-> Some(SignalBUY), raised |-> FALSE,
                         note |-> "crossed"]
                   ELSE [accs |-> Put(accs1, token_key, added),
                         decision |-> None, raised |-> FALSE, note |-> "below"]
          [] data.action = Some(SignalSELL) ->
               IF ~has_position
               THEN [accs |-> accs1, decision |-> None, raised |-> FALSE,
                     note |-> "ignored_sell"]
               ELSE IF ~known
               THEN [accs |-> accs1, decision |-> None, raised |-> TRUE,
                     note |-> "raised"]
               ELSE
               LET added == add_signal(token_acc, trader_weights[data.wallet[1]], FALSE)
               IN  IF Reached(added.sell_weight, sell_threshold)
                   THEN [accs |-> Put(accs1, token_key,
                                      [added EXCEPT !.sell_weight = 0]),
                         decision |-> Some(SignalSELL), raised |-> FALSE,
                         note |-> "crossed"]
                   ELSE [accs |-> Put(accs1, token_key, added),
                         decision |-> None, raised |-> FALSE, note |-> "below"]
          [] OTHER ->
               [accs |-> accs1, decision |-> None, raised |-> FALSE,
                note |-> "unknown_action"]

\* CopyStrategy._execute_trade(action, token_acc, bot): the ledger and the
\* registry it leaves, how it ended, and the trade data it handed to the
\* Buy / Sell action (None when it handed none).
execute_trade(p, reg, strats, acts, action, token_acc) ==
    LET meta == token_acc.token_meta
        token_price == meta.price
        dropped(why) == [portfolio |-> p, registry |-> reg, result |-> why,
                         trade |-> None]
    IN  IF ~Truthy(token_price) THEN dropped("no_price")
        ELSE IF action = SignalBUY /\ "POSITION_SIZING" \notin strats
        THEN dropped("no_sizing")
        ELSE IF action = SignalBUY /\ get_position_size(meta) = 0
        THEN dropped("zero_size")
        ELSE
        LET token_quantity ==
                IF action = SignalBUY
                THEN get_position_size(meta) \div token_price[1]
                ELSE Get(p, KeyOf(meta))
            trade_data == TradeData(Some(meta), token_price, token_quantity)
        IN  IF token_quantity <= 0 THEN dropped("bad_quantity")
            ELSE IF action \notin acts THEN dropped("no_action")
            ELSE
            LET r == IF action = SignalBUY
                     THEN BuyExecute(p, reg, BaseToken, trade_data)
                     ELSE SellExecute(p, reg, BaseToken, trade_data)
            IN  [portfolio |-> r.portfolio, registry |-> r.registry,
                 result |-> r.result, trade |-> Some(trade_data)]

\* CopyStrategy.execute handing the token dict of the signal at hand to
\* _execute_trade, in place of the one the accumulator was created with
CopyExecuteWithSignalToken(p, reg, accs, strats, acts, data) ==
    IF ~validate_signal(data)
    THEN [portfolio |-> p, registry |-> reg, accs |-> accs, result |-> "invalid",
          decision |-> None, trade |-> None]
    ELSE
    LET d == process_signal(accs, p, data)
    IN  IF d.decision = None
        THEN [portfolio |-> p, registry |-> reg, accs |-> d.accs,
              result |-> d.note, decision |-> None, trade |-> None]
        ELSE
        LET t == execute_trade(p, reg, strats, acts, d.decision[1],
                               [d.accs[KeyOf(data.token[1])]
                                   EXCEPT !.token_meta = data.token[1]])
        IN  [portfolio |-> t.portfolio, registry |-> t.registry, accs |-> d.accs,
             result |-> t.result, decision |-> d.decision, trade |-> t.trade]

\* CopyStrategy.execute(data, bot), with its try / except: the state it leaves,
\* the trade decision (the intent) and the trade data handed to the action.
CopyExecute(p, reg, accs, strats, acts, data) ==
    IF ~validate_signal(data)
    THEN [portfolio |-> p, registry |-> reg, accs |-> accs, result |-> "invalid",
          decision |-> None, trade |-> None]
    ELSE
    LET d == process_signal(accs, p, data)
    IN  IF d.decision = None
        THEN [portfolio |-> p, registry |-> reg, accs |-> d.accs,
              result |-> d.note, decision |-> None, trade |-> None]
        ELSE
        LET t == execute_trade(p, reg, strats, acts, d.decision[1],
                               d.accs[KeyOf(data.token[1])])
        IN  [portfolio |-> t.portfolio, registry |-> t.registry, accs |-> d.accs,
             result |-> t.result, decision |-> d.decision, trade |-> t.trade]

-----------------------------------------------------------------------------
(* Configuration of the bot (CopyTradingBotBuilder.build) *)

\* BotManager.__new__: no bot registered, no token subscribed.  No Bot object
\* exists yet and no subscribe_token call has been made for one.
InitManager ==
    /\ bots = EmptyDict
    /\ manager_bots = {}
    /\ token_subscribers = EmptyDict
    /\ held = EmptyDict

\* DexScreenerPoller.__init__: no token subscribed, no polling task
InitPoller ==
    /\ subscribed_tokens = {}
    /\ polling_task = None
    /\ loop_tasks = EmptyDict
    /\ batch_tasks = EmptyDict
    /\ fetches = <<>>
    /\ published = EmptyDict

\* The state after construction: Bot.__init__ leaves the ledger empty, the
\* registry and the accumulators hold nothing, no publish call is under way.
InitProgram ==
    /\ portfolio = EmptyDict
    /\ registry = EmptyDict
    /\ token_accumulators = EmptyDict
    /\ strategies = {"RAY_BOT", "POSITION_SIZING", "MARKET_CAP_UPDATE"}
    /\ actions = {"BUY", "SELL"}
    /\ tasks = EmptyDict
    /\ pc = EmptyDict
    /\ call = None
    /\ last = [op |-> "init", key |-> None, result |-> "ok", decision |-> None,
               trade |-> None]
    /\ snap = None
    /\ token_trackers = EmptyDict
    /\ subscribers = [kind \in EventKinds |-> <<>>]
    /\ deliveries = EmptyDict
    /\ received = EmptyDict
    /\ InitManager
    /\ InitPoller

-----------------------------------------------------------------------------
(* Direct calls on the ledger and on the Buy / Sell actions.  A caller issues *)
(* a call (IssueCall picks its arguments); the call then runs as one step.    *)

Bounded(p) == \A k \in DOMAIN p : p[k] <= MaxHold

\* prices a caller passes under the "price" key (None: the key is absent)
TradePrices == {None, Some(1), Some(2)}

\* prices of the token dict handed to get_or_create_token
TokenPrices == {None, Some(1)}

\* the tokens direct Buy / Sell calls trade (TK2 is touched by ledger calls only)
TradedKeys == {BASE, TK1}

\* the trade data of a direct Buy / Sell call
DirectTrades ==
    {TradeData(Some(TokenData(k, tp, None)), pr, q) :
        k \in TradedKeys, tp \in TokenPrices, pr \in TradePrices, q \in 0..MaxQty}
    \cup {TradeData(None, Some(1), 1)}

\* the arguments (token_key, quantity) of a direct ledger call
LedgerArgs(quantities) ==
    {TradeData(Some(TokenData(k, None, None)), None, q) :
        k \in TokenKeys, q \in quantities}

Calls ==
    {[op |-> "update_portfolio", data |-> d] : d \in LedgerArgs(-1..MaxQty)}
    \cup {[op |-> "add_to_portfolio", data |-> d] : d \in LedgerArgs(-MaxQty..MaxQty)}
    \cup {[op |-> o, data |-> d] : o \in {"buy", "sell"}, d \in DirectTrades}

Observe(op, key, result) ==
    [op |-> op, key |-> key, result |-> result, decision |-> None, trade |-> None]

DataKey(data) == IF data.token = None THEN None ELSE KeyOf(data.token[1])

\* what a call does to the ledger and the registry
RunCall(c) ==
    LET key == DataKey(c.data)
    IN  CASE c.op = "update_portfolio" ->
               LET r == update_portfolio(portfolio, key, c.data.quantity)
               IN  [portfolio |-> r.portfolio, registry |-> registry,
                    result |-> IF r.raised THEN "raised" ELSE "ok"]
          [] c.op = "add_to_portfolio" ->
               LET r == add_to_portfolio(portfolio, key, c.data.quantity)
               IN  [portfolio |-> r.portfolio, registry |-> registry,
                    result |-> IF r.raised THEN "raised" ELSE "ok"]
          [] c.op = "buy" -> BuyExecute(portfolio, registry, BaseToken, c.data)
          [] c.op = "sell" -> SellExecute(portfolio, registry, BaseToken, c.data)

\* a caller issues a call whose result stays within the model's bounds
IssueCall ==
    /\ call = None
    /\ \E c \in Calls :
        /\ Bounded(RunCall(c).portfolio)
        /\ call' = Some(c)
    /\ last' = Observe("call", None, "pending")
    /\ UNCHANGED <<portfolio, registry, token_accumulators, strategies,
                   actions, tasks, pc, snap, stopVars, busVars, mgrVars,
                   pollVars>>

Return(op) ==
    LET r == RunCall(call[1])
    IN  /\ call # None
        /\ call[1].op = op
        /\ portfolio' = r.portfolio
        /\ registry' = r.registry
        /\ last' = Observe(op, DataKey(call[1].data), r.result)
        /\ call' = None
        /\ UNCHANGED <<token_accumulators, strategies, actions, tasks, pc,
                       snap, stopVars, busVars, mgrVars, pollVars>>

\* bot.update_portfolio(token_key, new_quantity)
UpdatePortfolio == Return("update_portfolio")

\* bot.add_to_portfolio(token_key, quantity)
AddToPortfolio == Return("add_to_portfolio")

\* await Buy(BaseToken).execute(data, bot)
BuyCall == Return("buy")

\* await Sell(BaseToken).execute(data, bot)
SellCall == Return("sell")

NextLedger == IssueCall \/ UpdatePortfolio \/ AddToPortfolio \/ BuyCall \/ SellCall

\* Any sequence of update_portfolio, add_to_portfolio, Buy.execute and
\* Sell.execute calls on one bot.
SpecLedger == InitProgram /\ [][NextLedger]_vars

-----------------------------------------------------------------------------
(* Signals through the EventBus: raybot_handler publishes a RAY_BOT event,   *)
(* EventBus.publish creates the subscriber's handler coroutine and awaits    *)
(* it; Bot.handle_event runs the CopyStrategy on the event's data.  No await *)
(* inside the handler suspends (every awaited coroutine runs to its end      *)
(* without waiting on a future), so one handler run is one step.             *)

\* builder.initial_balance, as the builder's add_to_portfolio records it
InitialBalance == 4

\* The state CopyTradingBotBuilder.build leaves: the base token registered,
\* the initial balance in the ledger, three strategies and two actions.
InitBuilt ==
    /\ portfolio = Put(EmptyDict, BaseToken, InitialBalance)
    /\ registry = Put(EmptyDict, BaseToken,
                      [price |-> Some(1), market_cap |-> Some(1000000)])
    /\ token_accumulators = EmptyDict
    /\ strategies = {"RAY_BOT", "POSITION_SIZING", "MARKET_CAP_UPDATE"}
    /\ actions = {"BUY", "SELL"}
    /\ tasks = EmptyDict
    /\ pc = [c \in {"c1", "c2"} |-> "idle"]
    /\ call = None
    /\ last = Observe("init", None, "ok")
    /\ snap = None
    /\ token_trackers = EmptyDict
    /\ subscribers = [kind \in EventKinds |-> <<"bot">>]
    /\ deliveries = EmptyDict
    /\ received = EmptyDict
    /\ InitManager
    /\ InitPoller

\* the token dicts signals carry: a price of 1 or 2, no price, no market cap
SignalTokens ==
    {TokenData(k, Some(pr), Some(2)) : k \in {TK1, TK2}, pr \in {1, 2}}
    \cup {TokenData(k, None, Some(2)) : k \in {TK1, TK2}}
    \cup {TokenData(k, Some(1), None) : k \in {TK1, TK2}}

\* signals that pass validation (HOLD is an action the strategy does not know)
ValidSignals ==
    {RayMessage(Some(w), Some(a), Some(t), 1) :
        w \in DOMAIN trader_weights, a \in {SignalBUY, SignalSELL}, t \in SignalTokens}
    \cup {RayMessage(Some("A"), Some("HOLD"), Some(TokenData(TK1, Some(1), Some(2))), 1)}

\* signals from a wallet outside the copy list, or with a field missing
InvalidSignals ==
    {RayMessage(Some("X"), Some(a), Some(TokenData(k, Some(1), Some(2))), 1) :
        a \in {SignalBUY, SignalSELL}, k \in {TK1, TK2}}
    \cup {RayMessage(None, Some(SignalBUY), Some(TokenData(TK1, Some(1), Some(2))), 1),
          RayMessage(Some("A"), None, Some(TokenData(TK1, Some(1), Some(2))), 1),
          RayMessage(Some("B"), Some(SignalBUY), None, 1),
          RayMessage(Some("B"), Some(SignalBUY), Some(TokenData(TK1, Some(1), Some(2))), 0)}

Signals == ValidSignals \cup InvalidSignals

\* the accumulators as they were when the overlapping calls were made
AccumulatorsReadAtPublish ==
    IF snap = None THEN token_accumulators ELSE snap[1].accs

\* the accumulators a handler run works on: self.token_accumulators, as they
\* are when the handler runs
AccumulatorsRead == token_accumulators

\* Bot.handle_event(event) for a RAY_BOT event
handle_event(p, reg, accs, strats, acts, data) ==
    IF "RAY_BOT" \notin strats
    THEN [portfolio |-> p, registry |-> reg, accs |-> accs,
          result |-> "no_strategy", decision |-> None, trade |-> None]
    ELSE CopyExecute(p, reg, accs, strats, acts, data)

\* what a handler run reports: the intent and the trade data handed on
Outcome(r) == [result |-> r.result, decision |-> r.decision, trade |-> r.trade]

DataKeyOf(data) == IF data.token = None THEN None ELSE KeyOf(data.token[1])

\* EventBus.publish(Event(RAY_BOT, data)) by caller c: the handler coroutine of
\* the subscribed bot is created and the caller awaits it.
Publish(c, data) ==
    /\ call = None
    /\ pc[c] = "idle"
    /\ snap = None
    /\ \A d \in DOMAIN pc : pc[d] = "idle"
    /\ "RAY_BOT" \in strategies
    /\ pc' = [pc EXCEPT ![c] = "awaiting"]
    /\ tasks' = Put(tasks, c, [event |-> data, status |-> "pending",
                               outcome |-> None])
    /\ last' = Observe("publish", None, "pending")
    /\ UNCHANGED <<portfolio, registry, token_accumulators, strategies,
                   actions, call, snap, stopVars, busVars, mgrVars, pollVars>>

\* A second publish call, for the same token, made while the handler of the
\* first has not run yet.
PublishOverlapping(c, data) ==
    /\ pc[c] = "idle"
    /\ snap = None
    /\ \E d \in DOMAIN tasks :
        /\ d # c
        /\ tasks[d].status = "pending"
        /\ DataKeyOf(tasks[d].event) = DataKeyOf(data)
    /\ pc' = [pc EXCEPT ![c] = "awaiting"]
    /\ tasks' = Put(tasks, c, [event |-> data, status |-> "pending",
                               outcome |-> None])
    /\ snap' = Some([portfolio |-> portfolio, registry |-> registry,
                     accs |-> token_accumulators])
    /\ last' = Observe("publish", None, "pending")
    /\ UNCHANGED <<portfolio, registry, token_accumulators, strategies,
                   actions, call, stopVars, busVars, mgrVars, pollVars>>

\* The event loop runs the handler coroutine that publish created for c.
HandleEvent(c) ==
    /\ c \in DOMAIN tasks
    /\ tasks[c].status = "pending"
    /\ LET data == tasks[c].event
           r == handle_event(portfolio, registry, AccumulatorsRead, strategies,
                             actions, data)
       IN  /\ portfolio' = r.portfolio
           /\ registry' = r.registry
           /\ token_accumulators' = r.accs
           /\ tasks' = [tasks EXCEPT ![c].status = "done",
                                     ![c].outcome = Some(Outcome(r))]
           /\ last' = [op |-> "signal", key |-> DataKeyOf(data),
                       result |-> r.result, decision |-> r.decision,
                       trade |-> r.trade]
    /\ UNCHANGED <<strategies, actions, pc, call, snap, stopVars, busVars,
                   mgrVars, pollVars>>

\* asyncio.gather is done: publish returns to its caller.  After an overlap
\* the caller stops (the behaviour ends once both calls have returned).
PublishReturn(c) ==
    /\ pc[c] = "awaiting"
    /\ tasks[c].status = "done"
    /\ IF snap = None
       THEN /\ pc' = [pc EXCEPT ![c] = "idle"]
            /\ tasks' = [d \in DOMAIN tasks \ {c} |-> tasks[d]]
       ELSE /\ pc' = [pc EXCEPT ![c] = "returned"]
            /\ tasks' = tasks
    /\ UNCHANGED <<portfolio, registry, token_accumulators, strategies,
                   actions, call, last, snap, stopVars, busVars, mgrVars,
                   pollVars>>

PublishSignal == \E data \in Signals : Publish("c1", data)

HandleSignal == HandleEvent("c1")

ReturnSignal == PublishReturn("c1")

NextCopy == PublishSignal \/ HandleSignal \/ ReturnSignal

\* Signals published one after the other to the bot the builder built.
SpecCopy == InitBuilt /\ [][NextCopy]_vars

\* the signals of the overlapping calls: one token, every trader and side
ConcSignals ==
    {RayMessage(Some(w), Some(a), Some(TokenData(TK1, Some(1), Some(2))), 1) :
        w \in DOMAIN trader_weights, a \in {SignalBUY, SignalSELL}}

PublishFirst == \E data \in ConcSignals : Publish("c1", data)

PublishSecond == \E data \in ConcSignals : PublishOverlapping("c2", data)

RunHandler == \E c \in {"c1", "c2"} : HandleEvent(c)

ReturnPublish == \E c \in {"c1", "c2"} : PublishReturn(c)

NextConc == PublishFirst \/ PublishSecond \/ RunHandler \/ ReturnPublish

\* Signals for one token published one after the other, until two publish
\* calls overlap: both handler coroutines exist before either has run, and
\* the event loop runs them in either order.
SpecConc == InitBuilt /\ [][NextConc]_vars

-----------------------------------------------------------------------------
(* The handler of a signal, statement by statement around the two ledger     *)
(* writes of Buy.execute.  A handler coroutine is at "pending" (created, not *)
(* started), "checked" (Buy.execute has passed its balance check and has not *)
(* debited yet), "debited" (the base token is debited, the bought token is   *)
(* not credited yet) or "done".  The event loop runs another coroutine only  *)
(* when the running one suspends.                                            *)

\* Buy.execute awaiting between its balance check and its second ledger write
SuspendsAfterDebit(status) == status = "debited"

\* whether a coroutine at this position has handed control back to the event
\* loop: Buy.execute has no await between line 44 and line 60
Suspends(status) == FALSE

\* handler d is between the balance check and the credit of Buy.execute
Inside(d) == d \in DOMAIN tasks /\ tasks[d].status \in {"checked", "debited"}

\* the event loop may run a step of a coroutine other than the handlers
\* that are inside Buy.execute
LoopFree(c) ==
    \A d \in DOMAIN tasks \ {c} : Inside(d) => Suspends(tasks[d].status)

\* Bot.handle_event up to and including the balance check of Buy.execute
\* (everything but the two add_to_portfolio calls of a buy that goes through).
StartHandler(c) ==
    /\ c \in DOMAIN tasks
    /\ tasks[c].status = "pending"
    /\ LoopFree(c)
    /\ LET data == tasks[c].event
           r == handle_event(portfolio, registry, AccumulatorsRead, strategies,
                             actions, data)
       IN  /\ registry' = r.registry
           /\ token_accumulators' = r.accs
           /\ tasks' = [tasks EXCEPT
                  ![c].status = IF r.result = "bought" THEN "checked" ELSE "done",
                  ![c].outcome = Some(Outcome(r))]
           /\ last' = [op |-> "signal", key |-> DataKeyOf(data),
                       result |-> IF r.result = "bought" THEN "checked"
                                  ELSE r.result,
                       decision |-> r.decision, trade |-> r.trade]
    /\ UNCHANGED <<portfolio, strategies, actions, pc, call, snap, stopVars,
                   busVars, mgrVars, pollVars>>

\* the trade data Buy.execute of handler c works on
TradeOf(c) == tasks[c].outcome[1].trade[1]

\* bot.add_to_portfolio(self.base_token, -cost)
Debit(c) ==
    /\ c \in DOMAIN tasks
    /\ tasks[c].status = "checked"
    /\ LoopFree(c)
    /\ LET r == add_to_portfolio(portfolio, BaseToken,
                                 0 - TradeOf(c).price[1] * TradeOf(c).quantity)
       IN  /\ portfolio' = r.portfolio
           /\ tasks' = [tasks EXCEPT
                  ![c].status = IF r.raised THEN "done" ELSE "debited"]
           /\ last' = [last EXCEPT !.op = "debit",
                                   !.result = IF r.raised THEN "raised" ELSE "debited"]
    /\ UNCHANGED <<registry, token_accumulators, strategies, actions, pc,
                   call, snap, stopVars, busVars, mgrVars, pollVars>>

\* bot.add_to_portfolio(token_key, quantity), after which the handler returns
Credit(c) ==
    /\ c \in DOMAIN tasks
    /\ tasks[c].status = "debited"
    /\ LoopFree(c)
    /\ LET r == add_to_portfolio(portfolio, KeyOf(TradeOf(c).token[1]),
                                 TradeOf(c).quantity)
       IN  /\ portfolio' = r.portfolio
           /\ tasks' = [tasks EXCEPT ![c].status = "done"]
           /\ last' = [last EXCEPT !.op = "credit",
                                   !.result = IF r.raised THEN "raised" ELSE "bought"]
    /\ UNCHANGED <<registry, token_accumulators, strategies, actions, pc,
                   call, snap, stopVars, busVars, mgrVars, pollVars>>

PublishFirstStep == LoopFree("c1") /\ PublishFirst

PublishSecondStep == LoopFree("c2") /\ PublishSecond

StartStep == \E c \in {"c1", "c2"} : StartHandler(c)

DebitStep == \E c \in {"c1", "c2"} : Debit(c)

CreditStep == \E c \in {"c1", "c2"} : Credit(c)

ReturnStep == \E c \in {"c1", "c2"} : LoopFree(c) /\ PublishReturn(c)

NextAtomic ==
    \/ PublishFirstStep
    \/ PublishSecondStep
    \/ StartStep
    \/ DebitStep
    \/ CreditStep
    \/ ReturnStep

\* Signals for one token delivered to one bot by overlapping publish calls,
\* with the handlers' buys taken one ledger write at a time.
SpecAtomic == InitBuilt /\ [][NextAtomic]_vars

-----------------------------------------------------------------------------
(* StopLossStrategy *)

\* StopLossStrategy.stop_loss_percentage (constructor argument)
stop_loss_percentage == 20

\* TokenMarketCapData(network, address, market_cap)
TokenMarketCapData(network, address, market_cap) ==
    [network |-> network, address |-> address, market_cap |-> market_cap]

\* token_key = (token_meta.network, token_meta.address)
StopKey(token_meta) == <<token_meta.network, token_meta.address>>

\* TokenTracker(token_meta, market_cap_high, last_market_cap)
TokenTracker(token_meta, high, lastcap) ==
    [token_meta |-> token_meta, market_cap_high |-> high,
     last_market_cap |-> lastcap]

\* update_market_cap taking the new value as the high whatever it is
update_market_cap_no_max(tracker, new_market_cap) ==
    [tracker EXCEPT !.last_market_cap = new_market_cap,
                    !.market_cap_high = new_market_cap]

\* TokenTracker.update_market_cap
update_market_cap(tracker, new_market_cap) ==
    [tracker EXCEPT
        !.last_market_cap = new_market_cap,
        !.market_cap_high = IF new_market_cap > tracker.market_cap_high
                            THEN new_market_cap
                            ELSE tracker.market_cap_high]

\* _should_track_token answering yes whatever the position
should_track_token_always(p, token_key) == TRUE

\* StopLossStrategy._should_track_token
should_track_token(p, token_key) == get_position(p, token_key) > 0

\* _check_stop_loss with a strict comparison
check_stop_loss_strict(tracker) ==
    IF tracker.market_cap_high <= 0
    THEN FALSE
    ELSE (tracker.market_cap_high - tracker.last_market_cap) * 100
            > stop_loss_percentage * tracker.market_cap_high

\* StopLossStrategy._check_stop_loss: (high - last) / high * 100 >= percentage,
\* written without the division (high > 0 on this branch)
check_stop_loss(tracker) ==
    IF tracker.market_cap_high <= 0
    THEN FALSE
    ELSE (tracker.market_cap_high - tracker.last_market_cap) * 100
            >= stop_loss_percentage * tracker.market_cap_high

\* d without key k
Del(d, k) == [x \in DOMAIN d \ {k} |-> d[x]]

\* StopLossStrategy._execute_sell(token_meta, bot): the trade data carries the
\* token's network, address and market cap, the quantity, and no price.
execute_sell(p, reg, trackers, acts, token_meta) ==
    LET token_key == StopKey(token_meta)
        token_quantity == get_position(p, token_key)
        trade_data ==
            TradeData(Some(TokenData(<<token_meta.address, token_meta.network>>,
                                     None, Some(token_meta.market_cap))),
                      None, token_quantity)
    IN  IF token_quantity <= 0
        THEN [registry |-> reg, trackers |-> trackers, result |-> "no_position",
              trade |-> None]
        ELSE IF "SELL" \notin acts
        THEN [registry |-> reg, trackers |-> trackers, result |-> "no_action",
              trade |-> None]
        ELSE
        LET r == SellExecute(p, reg, BaseToken, trade_data)
        IN  [registry |-> r.registry,
             trackers |-> IF r.result = "raised" THEN trackers
                          ELSE Del(trackers, token_key),
             result |-> r.result, trade |-> Some(trade_data)]

\* StopLossStrategy.execute(token_meta, bot), with its try / except: the state
\* it leaves, whether the stop-loss triggered (decision) and the trade data
\* handed to the Sell action.
StopLossExecute(p, reg, trackers, acts, token_meta) ==
    LET market_cap == token_meta.market_cap
        token_key == StopKey(token_meta)
    IN  IF ~should_track_token(p, token_key)
        THEN [registry |-> reg, trackers |-> Del(trackers, token_key),
              result |-> IF token_key \in DOMAIN trackers THEN "discarded"
                         ELSE "untracked",
              decision |-> None, trade |-> None]
        ELSE
        LET trackers1 ==
                IF token_key \notin DOMAIN trackers
                THEN Put(trackers, token_key,
                         TokenTracker(token_meta, market_cap, market_cap))
                ELSE Put(trackers, token_key,
                         update_market_cap(trackers[token_key], market_cap))
        IN  IF ~check_stop_loss(trackers1[token_key])
            THEN [registry |-> reg, trackers |-> trackers1,
                  result |-> "tracking", decision |-> None, trade |-> None]
            ELSE
            LET r == execute_sell(p, reg, trackers1, acts, token_meta)
            IN  [registry |-> r.registry, trackers |-> r.trackers,
                 result |-> r.result, decision |-> Some("SELL"),
                 trade |-> r.trade]

-----------------------------------------------------------------------------
(* Market-cap updates: the poller publishes a MARKET_CAP_UPDATE event and     *)
(* Bot.handle_event runs the StopLossStrategy on its data.  Positions come    *)
(* from the Buy action, which records them under (address, network), and from *)
(* update_portfolio calls with the key the caller chooses.                    *)

\* the market caps the poller reports
McValues == {0, 100, 120, 135, 150}

\* the updates the poller publishes: every value for tk1, one for tk2
MarketCapUpdates ==
    {TokenMarketCapData("solana", "tk1", m) : m \in McValues}
    \cup {TokenMarketCapData("solana", "tk2", 100)}

\* A bot as the builder builds it, with or without a SELL action registered.
InitStop ==
    /\ portfolio = Put(EmptyDict, BaseToken, InitialBalance)
    /\ registry = Put(EmptyDict, BaseToken,
                      [price |-> Some(1), market_cap |-> Some(1000000)])
    /\ token_accumulators = EmptyDict
    /\ strategies = EventKinds
    /\ actions \in {{"BUY", "SELL"}, {"BUY"}}
    /\ tasks = EmptyDict
    /\ pc = [c \in {"c1", "c2"} |-> "idle"]
    /\ call = None
    /\ last = Observe("init", None, "ok")
    /\ snap = None
    /\ token_trackers = EmptyDict
    /\ subscribers = [kind \in EventKinds |-> <<"bot">>]
    /\ deliveries = EmptyDict
    /\ received = EmptyDict
    /\ InitManager
    /\ InitPoller

\* Bot.handle_event(event) for a MARKET_CAP_UPDATE event
handle_market_cap(p, reg, trackers, strats, acts, token_meta) ==
    IF "MARKET_CAP_UPDATE" \notin strats
    THEN [registry |-> reg, trackers |-> trackers, result |-> "no_strategy",
          decision |-> None, trade |-> None]
    ELSE StopLossExecute(p, reg, trackers, acts, token_meta)

\* EventBus.publish(Event(MARKET_CAP_UPDATE, data)) by the poller
PublishMarketCap(c, data) ==
    /\ \A d \in DOMAIN pc : pc[d] = "idle"
    /\ "MARKET_CAP_UPDATE" \in strategies
    /\ pc' = [pc EXCEPT ![c] = "awaiting"]
    /\ tasks' = Put(tasks, c, [event |-> data, status |-> "pending",
                               outcome |-> None])
    /\ last' = Observe("publish", None, "pending")
    /\ UNCHANGED <<portfolio, registry, token_accumulators, strategies,
                   actions, call, snap, stopVars, busVars, mgrVars, pollVars>>

\* The event loop runs the handler coroutine of a market-cap update.
HandleMarketCap(c) ==
    /\ c \in DOMAIN tasks
    /\ tasks[c].status = "pending"
    /\ LET data == tasks[c].event
           r == handle_market_cap(portfolio, registry, token_trackers,
                                  strategies, actions, data)
       IN  /\ registry' = r.registry
           /\ token_trackers' = r.trackers
           /\ tasks' = [tasks EXCEPT ![c].status = "done",
                                     ![c].outcome = Some(Outcome(r))]
           /\ last' = [op |-> "market_cap", key |-> StopKey(data),
                       result |-> r.result, decision |-> r.decision,
                       trade |-> r.trade]
    /\ UNCHANGED <<portfolio, token_accumulators, strategies, actions, pc,
                   call, snap, busVars, mgrVars, pollVars>>

\* Buy(BaseToken).execute for 2 of a token at price 1, between two updates
BuyPosition(k) ==
    /\ \A d \in DOMAIN pc : pc[d] = "idle"
    /\ LET r == BuyExecute(portfolio, registry, BaseToken,
                           TradeData(Some(TokenData(k, Some(1), Some(100))),
                                     Some(1), 2))
       IN  /\ r.result = "bought"
           /\ portfolio' = r.portfolio
           /\ registry' = r.registry
           /\ last' = Observe("buy", k, r.result)
    /\ UNCHANGED <<token_accumulators, strategies, actions, tasks, pc, call,
                   snap, stopVars, busVars, mgrVars, pollVars>>

\* bot.update_portfolio((network, address), q), between two updates
SetPosition(key, q) ==
    /\ \A d \in DOMAIN pc : pc[d] = "idle"
    /\ LET r == update_portfolio(portfolio, key, q)
       IN  /\ get_position(portfolio, key) # q
           /\ portfolio' = r.portfolio
           /\ last' = Observe("update_portfolio", key, "ok")
    /\ UNCHANGED <<registry, token_accumulators, strategies, actions, tasks,
                   pc, call, snap, stopVars, busVars, mgrVars, pollVars>>

PublishUpdate == \E data \in MarketCapUpdates : PublishMarketCap("c1", data)

HandleUpdate == HandleMarketCap("c1")

ReturnUpdate == PublishReturn("c1")

BuyToken == BuyPosition(TK1)

SetHolding ==
    \E a \in {"tk1", "tk2"}, q \in {0, 1} : SetPosition(<<"solana", a>>, q)

NextStop == PublishUpdate \/ HandleUpdate \/ ReturnUpdate \/ BuyToken \/ SetHolding

\* Market-cap updates published one after the other, with buys and ledger
\* updates between them.
SpecStop == InitStop /\ [][NextStop]_vars

\* bot.update_portfolio(token_key, 0) between two signals: the ledger's own
\* way of closing a position (Sell.execute writes into a copy of the ledger)
ClosePosition == \E token_key \in {TK1, TK2} : SetPosition(token_key, 0)

NextReopen == PublishSignal \/ HandleSignal \/ ReturnSignal \/ ClosePosition

\* Signals published one after the other, positions being closed in between.
SpecReopen == InitBuilt /\ [][NextReopen]_vars

-----------------------------------------------------------------------------
(* EventBus: subscribe, unsubscribe and publish with callbacks of any kind.   *)
(* publish calls every callback subscribed for the event's kind (creating one *)
(* coroutine each), hands the coroutines to asyncio.gather, which wraps each  *)
(* in a task, and awaits the gather.  asyncio.gather without                  *)
(* return_exceptions resumes its awaiter when every task is done or, before   *)
(* that, when a first task has raised; it leaves the other tasks running.     *)

\* the callbacks subscribed to the bus: one that returns at once, one that
\* raises, one that awaits something before it returns
Callbacks == {"good", "bad", "slow"}

\* what the first run of a callback's coroutine ends in
Behaviour(callback) ==
    CASE callback = "good" -> "done"
      [] callback = "bad" -> "failed"
      [] callback = "slow" -> "suspended"

\* EventBus.__init__: no subscriber; nothing published yet
InitBus ==
    /\ portfolio = EmptyDict
    /\ registry = EmptyDict
    /\ token_accumulators = EmptyDict
    /\ strategies = {}
    /\ actions = {}
    /\ tasks = EmptyDict
    /\ pc = [c \in {"c1"} |-> "idle"]
    /\ call = None
    /\ last = Observe("init", None, "ok")
    /\ snap = None
    /\ token_trackers = EmptyDict
    /\ subscribers = [kind \in EventKinds |-> <<>>]
    /\ deliveries = EmptyDict
    /\ received = [h \in Callbacks |-> <<>>]
    /\ InitManager
    /\ InitPoller

\* list.remove(x): the list without its first x
RemoveFirst(list, x) ==
    LET i == CHOOSE i \in 1..Len(list) :
                 list[i] = x /\ \A j \in 1..(i - 1) : list[j] # x
    IN  SubSeq(list, 1, i - 1) \o SubSeq(list, i + 1, Len(list))

\* EventBus.subscribe(event_type, callback)
Subscribe(kind, callback) ==
    /\ Len(subscribers[kind]) < MaxSubs
    /\ subscribers' = [subscribers EXCEPT ![kind] = Append(@, callback)]
    /\ UNCHANGED <<portfolio, registry, token_accumulators, strategies,
                   actions, tasks, pc, call, last, snap, stopVars, deliveries,
                   received, mgrVars, pollVars>>

\* EventBus.unsubscribe(event_type, callback)
Unsubscribe(kind, callback) ==
    /\ \E i \in 1..Len(subscribers[kind]) : subscribers[kind][i] = callback
    /\ subscribers' = [subscribers EXCEPT ![kind] = RemoveFirst(@, callback)]
    /\ UNCHANGED <<portfolio, registry, token_accumulators, strategies,
                   actions, tasks, pc, call, last, snap, stopVars, deliveries,
                   received, mgrVars, pollVars>>

\* publish calling only the first subscribed callback
CoroutinesFirstOnly(subs) == <<Head(subs)>>

\* (callback(event) for callback in self._subscribers[event.event_type]),
\* unpacked as the arguments of asyncio.gather: one coroutine per subscription,
\* all created before publish first suspends
Coroutines(subs) == subs

\* EventBus.publish(event) by caller c up to its await.  at_call records the
\* subscriber list of the event's kind at the moment of the call.
PublishEvent(c, kind) ==
    /\ pc[c] = "idle"
    /\ c \notin DOMAIN deliveries
    /\ IF subscribers[kind] = <<>>
       THEN /\ pc' = [pc EXCEPT ![c] = "returned"]
            /\ deliveries' = Put(deliveries, c,
                    [kind |-> kind, at_call |-> <<>>, coroutines |-> <<>>,
                     status |-> <<>>])
       ELSE /\ pc' = [pc EXCEPT ![c] = "awaiting"]
            /\ deliveries' = Put(deliveries, c,
                    [kind |-> kind, at_call |-> subscribers[kind],
                     coroutines |-> Coroutines(subscribers[kind]),
                     status |-> [i \in 1..Len(Coroutines(subscribers[kind]))
                                    |-> "pending"]])
    /\ UNCHANGED <<portfolio, registry, token_accumulators, strategies,
                   actions, tasks, call, last, snap, stopVars, subscribers,
                   received, mgrVars, pollVars>>

\* a failing task making asyncio.gather cancel the tasks not yet done
CancelOthers(status) ==
    [i \in DOMAIN status |->
        IF status[i] \in {"pending", "suspended"} THEN "cancelled" ELSE status[i]]

\* what asyncio.gather does to its other tasks when one has raised: nothing
AfterFailure(status) == status

\* The event loop runs task i of c's gather for the first time: the callback
\* gets the event, then returns, raises or awaits.
RunTask(c, i) ==
    /\ c \in DOMAIN deliveries
    /\ i \in DOMAIN deliveries[c].status
    /\ deliveries[c].status[i] = "pending"
    /\ LET callback == deliveries[c].coroutines[i]
           status1 == [deliveries[c].status EXCEPT ![i] = Behaviour(callback)]
       IN  /\ deliveries' = [deliveries EXCEPT ![c].status =
                    IF Behaviour(callback) = "failed" THEN AfterFailure(status1)
                    ELSE status1]
           /\ received' = [received EXCEPT ![callback] = Append(@, c)]
    /\ UNCHANGED <<portfolio, registry, token_accumulators, strategies,
                   actions, tasks, pc, call, last, snap, stopVars,
                   subscribers, mgrVars, pollVars>>

\* What a suspended callback awaited is there: the task runs to its end.
ResumeTask(c, i) ==
    /\ c \in DOMAIN deliveries
    /\ i \in DOMAIN deliveries[c].status
    /\ deliveries[c].status[i] = "suspended"
    /\ deliveries' = [deliveries EXCEPT ![c].status[i] = "done"]
    /\ UNCHANGED <<portfolio, registry, token_accumulators, strategies,
                   actions, tasks, pc, call, last, snap, stopVars,
                   subscribers, received, mgrVars, pollVars>>

Statuses(c) == {deliveries[c].status[i] : i \in DOMAIN deliveries[c].status}

\* The gather is done without a failure: publish returns to its caller.
GatherReturn(c) ==
    /\ pc[c] = "awaiting"
    /\ Statuses(c) \subseteq {"done"}
    /\ pc' = [pc EXCEPT ![c] = "returned"]
    /\ UNCHANGED <<portfolio, registry, token_accumulators, strategies,
                   actions, tasks, call, last, snap, stopVars, busVars,
                   mgrVars, pollVars>>

\* A task of the gather has raised: the exception reaches the caller of
\* publish.  Every task has had its first run by then (tasks are started in
\* the order they were created, before the awaiter is woken).
GatherRaise(c) ==
    /\ pc[c] = "awaiting"
    /\ "failed" \in Statuses(c)
    /\ "pending" \notin Statuses(c)
    /\ pc' = [pc EXCEPT ![c] = "raised"]
    /\ UNCHANGED <<portfolio, registry, token_accumulators, strategies,
                   actions, tasks, call, last, snap, stopVars, busVars,
                   mgrVars, pollVars>>

SubscribeStep ==
    \/ \E callback \in Callbacks : Subscribe("RAY_BOT", callback)
    \/ Subscribe("MARKET_CAP_UPDATE", "good")

UnsubscribeStep ==
    \E kind \in {"RAY_BOT", "MARKET_CAP_UPDATE"}, callback \in Callbacks :
        Unsubscribe(kind, callback)

PublishStep == PublishEvent("c1", "RAY_BOT")

RunStep == \E i \in 1..MaxSubs : RunTask("c1", i)

ResumeStep == \E i \in 1..MaxSubs : ResumeTask("c1", i)

GatherReturnStep == GatherReturn("c1")

GatherRaiseStep == GatherRaise("c1")

NextBus ==
    \/ SubscribeStep
    \/ UnsubscribeStep
    \/ PublishStep
    \/ RunStep
    \/ ResumeStep
    \/ GatherReturnStep
    \/ GatherRaiseStep

\* One publish call on a bus whose subscriber lists change before, during
\* and after the delivery.
SpecBus == InitBus /\ [][NextBus]_vars

\* The same, with the event loop running every task that is ready.
SpecBusFair == SpecBus /\ WF_vars(RunStep) /\ WF_vars(ResumeStep)

-----------------------------------------------------------------------------
(* Bots on the bus.  Bot.set_strategy stores the strategy of an event kind    *)
(* and subscribes the bot's handle_event to the kind; remove_strategy and     *)
(* unsubscribe_all take strategies and subscriptions away again.  A bound     *)
(* method compares equal to any other bound method of the same bot, so the    *)
(* callback bot.handle_event is identified by the bot's name.                 *)

BotNames == {"b1", "b2"}

\* the strategies a bot is given here: one whose execute returns and one whose
\* execute (or the action it calls) raises an Exception
StrategyKinds == {"returns", "raises"}

\* Bot.__init__: no strategy
NewBot == [strategies |-> EmptyDict]

\* EventBus.subscribe(event_type, callback) on the subscriber lists subs
bus_subscribe(subs, kind, callback) ==
    [subs EXCEPT ![kind] = Append(@, callback)]

\* EventBus.unsubscribe(event_type, callback) on the subscriber lists subs
bus_unsubscribe(subs, kind, callback) ==
    IF \E i \in 1..Len(subs[kind]) : subs[kind][i] = callback
    THEN [subs EXCEPT ![kind] = RemoveFirst(@, callback)]
    ELSE subs

\* Bot.set_strategy(event_type, strategy) of the bot called name
set_strategy(bot, subs, name, kind, strategy) ==
    [bot |-> [bot EXCEPT !.strategies = Put(@, kind, strategy)],
     subscribers |-> bus_subscribe(subs, kind, name)]

\* Bot.remove_strategy(event_type)
remove_strategy(bot, subs, name, kind) ==
    IF kind \in DOMAIN bot.strategies
    THEN [bot |-> [bot EXCEPT !.strategies = Del(@, kind)],
          subscribers |-> bus_unsubscribe(subs, kind, name)]
    ELSE [bot |-> bot, subscribers |-> subs]

\* Bot.unsubscribe_all(): remove_strategy for every kind in _strategies
RECURSIVE unsubscribe_all(_, _, _)
unsubscribe_all(bot, subs, name) ==
    IF DOMAIN bot.strategies = {}
    THEN [bot |-> bot, subscribers |-> subs]
    ELSE LET kind == CHOOSE kind \in DOMAIN bot.strategies : TRUE
             r == remove_strategy(bot, subs, name, kind)
         IN  unsubscribe_all(r.bot, r.subscribers, name)

\* an exception leaving Bot.handle_event for want of the except clause
EscapesUncaught(raised) == raised

\* except Exception in Bot.handle_event: nothing raised by the strategy
\* leaves the handler
Escapes(raised) == FALSE

\* Bot.handle_event(event) with strategies that return or raise
bot_handle_event(bot, kind) ==
    IF kind \notin DOMAIN bot.strategies
    THEN [result |-> "no_strategy", raised |-> FALSE]
    ELSE IF bot.strategies[kind] = "raises"
        THEN [result |-> "error_logged", raised |-> Escapes(TRUE)]
        ELSE [result |-> "executed", raised |-> FALSE]

\* two bots without a strategy and a bus without a subscriber
InitBots ==
    /\ portfolio = EmptyDict
    /\ registry = EmptyDict
    /\ token_accumulators = EmptyDict
    /\ strategies = {}
    /\ actions = {}
    /\ tasks = EmptyDict
    /\ pc = [c \in {"c1"} |-> "idle"]
    /\ call = None
    /\ last = Observe("init", None, "ok")
    /\ snap = None
    /\ token_trackers = EmptyDict
    /\ subscribers = [kind \in EventKinds |-> <<>>]
    /\ deliveries = EmptyDict
    /\ received = [b \in BotNames |-> <<>>]
    /\ bots = [b \in BotNames |-> NewBot]
    /\ manager_bots = {}
    /\ token_subscribers = EmptyDict
    /\ held = EmptyDict
    /\ InitPoller

\* what the bot steps leave alone
BotFrame ==
    UNCHANGED <<portfolio, registry, token_accumulators, strategies, actions,
                tasks, pc, call, snap, stopVars, deliveries, received,
                manager_bots, token_subscribers, subscribed_tokens, held,
                pollVars>>

\* bots[b].set_strategy(kind, strategy)
SetStrategy(b, kind, strategy) ==
    /\ Len(subscribers[kind]) < MaxSubs
    /\ LET r == set_strategy(bots[b], subscribers, b, kind, strategy)
       IN  /\ bots' = [bots EXCEPT ![b] = r.bot]
           /\ subscribers' = r.subscribers
    /\ last' = Observe("set_strategy", None, "ok")
    /\ BotFrame

\* bots[b].remove_strategy(kind)
RemoveStrategy(b, kind) ==
    /\ LET r == remove_strategy(bots[b], subscribers, b, kind)
       IN  /\ bots' = [bots EXCEPT ![b] = r.bot]
           /\ subscribers' = r.subscribers
    /\ UNCHANGED last
    /\ BotFrame

\* bots[b].unsubscribe_all()
UnsubscribeAll(b) ==
    /\ LET r == unsubscribe_all(bots[b], subscribers, b)
       IN  /\ bots' = [bots EXCEPT ![b] = r.bot]
           /\ subscribers' = r.subscribers
    /\ last' = Observe("unsubscribe_all", b, "ok")
    /\ BotFrame

\* The event loop runs task i of c's gather: the handle_event coroutine of a
\* bot, which has no await that suspends, runs to its end.
RunBotTask(c, i) ==
    /\ c \in DOMAIN deliveries
    /\ i \in DOMAIN deliveries[c].status
    /\ deliveries[c].status[i] = "pending"
    /\ LET b == deliveries[c].coroutines[i]
           r == bot_handle_event(bots[b], deliveries[c].kind)
           status1 == [deliveries[c].status EXCEPT ![i] =
                           IF r.raised THEN "failed" ELSE "done"]
       IN  /\ deliveries' = [deliveries EXCEPT ![c].status =
                    IF r.raised THEN AfterFailure(status1) ELSE status1]
           /\ received' = [received EXCEPT ![b] = Append(@, r.result)]
    /\ UNCHANGED <<portfolio, registry, token_accumulators, strategies, actions,
                   tasks, pc, call, last, snap, stopVars, subscribers, mgrVars,
                   pollVars>>

BotKinds == {"RAY_BOT", "MARKET_CAP_UPDATE"}

SetStrategyStep ==
    \/ \E b \in BotNames, strategy \in StrategyKinds :
            SetStrategy(b, "RAY_BOT", strategy)
    \/ SetStrategy("b1", "MARKET_CAP_UPDATE", "returns")

RemoveStrategyStep ==
    \E b \in BotNames, kind \in BotKinds : RemoveStrategy(b, kind)

UnsubscribeAllStep == \E b \in BotNames : UnsubscribeAll(b)

PublishToBots == PublishEvent("c1", "RAY_BOT")

RunBotStep == \E i \in 1..MaxSubs : RunBotTask("c1", i)

PublishToBotsReturn == GatherReturn("c1")

NextBots ==
    \/ SetStrategyStep
    \/ RemoveStrategyStep
    \/ UnsubscribeAllStep
    \/ PublishToBots
    \/ RunBotStep
    \/ PublishToBotsReturn

\* Two bots whose strategies are set and removed in any order, before, during
\* and after one publish call.
SpecBots == InitBots /\ [][NextBots]_vars

-----------------------------------------------------------------------------
(* BotManager: the bots registered by name and the token subscriptions it     *)
(* counts per (network, address) pair on top of the poller's set.             *)
(* subscribe_token and unsubscribe_token take no bot: the caller knows for    *)
(* which bot it subscribes, and the model keeps that in held.                 *)

\* the (network, address) pairs the callers subscribe to
ManagedPairs == {<<"solana", "tk1">>, <<"solana", "tk2">>}

\* DexScreenerPoller.subscribe(network, token_address)
poller_subscribe(tokens, token_key) == tokens \cup {token_key}

\* DexScreenerPoller.unsubscribe(network, token_address)
poller_unsubscribe(tokens, token_key) == tokens \ {token_key}

\* BotManager.get_token_subscriber_count(network, token_address)
get_token_subscriber_count(counts, token_key) == Get(counts, token_key)

\* BotManager.subscribe_token(network, token_address).  Reading the
\* defaultdict creates the key with 0 before the comparison.
subscribe_token(counts, tokens, token_key) ==
    LET count == Get(counts, token_key)
    IN  [token_subscribers |-> Put(counts, token_key, count + 1),
         subscribed_tokens |-> IF count = 0
                               THEN poller_subscribe(tokens, token_key)
                               ELSE tokens,
         poller |-> IF count = 0 THEN "subscribe" ELSE "none"]

\* unsubscribe_token telling the poller only below 0
unsubscribe_token_below_zero(counts, tokens, token_key) ==
    IF token_key \notin DOMAIN counts
    THEN [token_subscribers |-> counts, subscribed_tokens |-> tokens,
          poller |-> "none"]
    ELSE LET count == counts[token_key] - 1
         IN  IF count < 0
             THEN [token_subscribers |-> Del(counts, token_key),
                   subscribed_tokens |-> poller_unsubscribe(tokens, token_key),
                   poller |-> "unsubscribe"]
             ELSE [token_subscribers |-> Put(counts, token_key, count),
                   subscribed_tokens |-> tokens, poller |-> "none"]

\* BotManager.unsubscribe_token(network, token_address)
unsubscribe_token(counts, tokens, token_key) ==
    IF token_key \notin DOMAIN counts
    THEN [token_subscribers |-> counts, subscribed_tokens |-> tokens,
          poller |-> "none"]
    ELSE LET count == counts[token_key] - 1
         IN  IF count <= 0
             THEN [token_subscribers |-> Del(counts, token_key),
                   subscribed_tokens |-> poller_unsubscribe(tokens, token_key),
                   poller |-> "unsubscribe"]
             ELSE [token_subscribers |-> Put(counts, token_key, count),
                   subscribed_tokens |-> tokens, poller |-> "none"]

\* for token_key in list(self._token_subscribers.keys()):
\*     self.unsubscribe_token(token_key[0], token_key[1])
RECURSIVE unsubscribe_every_token(_, _, _)
unsubscribe_every_token(counts, tokens, keys) ==
    IF keys = {}
    THEN [token_subscribers |-> counts, subscribed_tokens |-> tokens]
    ELSE LET token_key == CHOOSE token_key \in keys : TRUE
             r == unsubscribe_token(counts, tokens, token_key)
         IN  unsubscribe_every_token(r.token_subscribers, r.subscribed_tokens,
                                     keys \ {token_key})

\* BotManager.remove_bot(bot_name)
remove_bot(registered, objects, subs, counts, tokens, bot_name) ==
    IF bot_name \in registered
    THEN LET u == unsubscribe_all(objects[bot_name], subs, bot_name)
             t == unsubscribe_every_token(counts, tokens, DOMAIN counts)
         IN  [manager_bots |-> registered \ {bot_name},
              bots |-> [objects EXCEPT ![bot_name] = u.bot],
              subscribers |-> u.subscribers,
              token_subscribers |-> t.token_subscribers,
              subscribed_tokens |-> t.subscribed_tokens,
              result |-> "removed"]
    ELSE [manager_bots |-> registered, bots |-> objects, subscribers |-> subs,
          token_subscribers |-> counts, subscribed_tokens |-> tokens,
          result |-> "not_found"]

\* a manager without bots or tokens; the Bot objects exist, unregistered
InitMgr ==
    /\ portfolio = EmptyDict
    /\ registry = EmptyDict
    /\ token_accumulators = EmptyDict
    /\ strategies = {}
    /\ actions = {}
    /\ tasks = EmptyDict
    /\ pc = [c \in {"c1"} |-> "idle"]
    /\ call = None
    /\ last = Observe("init", None, "ok")
    /\ snap = None
    /\ token_trackers = EmptyDict
    /\ subscribers = [kind \in EventKinds |-> <<>>]
    /\ deliveries = EmptyDict
    /\ received = [b \in BotNames |-> <<>>]
    /\ bots = [b \in BotNames |-> NewBot]
    /\ manager_bots = {}
    /\ token_subscribers = EmptyDict
    /\ held = [b \in BotNames |-> {}]
    /\ InitPoller

\* what the manager steps leave alone
ManagerFrame ==
    UNCHANGED <<portfolio, registry, token_accumulators, strategies, actions,
                tasks, pc, call, snap, stopVars, deliveries, received,
                polling_task, loop_tasks, batch_tasks, fetches, published>>

\* manager.register_bot(bot) for the bot called b
RegisterBot(b) ==
    /\ manager_bots' = manager_bots \cup {b}
    /\ last' = Observe("register_bot", b, "ok")
    /\ UNCHANGED <<bots, subscribers, token_subscribers, subscribed_tokens,
                   held>>
    /\ ManagerFrame

\* a strategy given to the bot called b for the signals
GiveStrategy(b) == SetStrategy(b, "RAY_BOT", "returns")

\* manager.subscribe_token(network, address), called for bot b, which is
\* registered and has not subscribed the pair
SubscribeToken(b, token_key) ==
    /\ b \in manager_bots
    /\ token_key \notin held[b]
    /\ LET r == subscribe_token(token_subscribers, subscribed_tokens, token_key)
       IN  /\ token_subscribers' = r.token_subscribers
           /\ subscribed_tokens' = r.subscribed_tokens
           /\ last' = Observe("subscribe_token", token_key, r.poller)
    /\ held' = [held EXCEPT ![b] = @ \cup {token_key}]
    /\ UNCHANGED <<bots, manager_bots, subscribers>>
    /\ ManagerFrame

\* manager.unsubscribe_token(network, address), called for bot b: for a pair
\* the bot has subscribed, or for a pair nobody has subscribed
UnsubscribeToken(b, token_key) ==
    /\ \/ token_key \in held[b]
       \/ \A other \in BotNames : token_key \notin held[other]
    /\ LET r == unsubscribe_token(token_subscribers, subscribed_tokens,
                                  token_key)
       IN  /\ token_subscribers' = r.token_subscribers
           /\ subscribed_tokens' = r.subscribed_tokens
           /\ last' = Observe("unsubscribe_token", token_key, r.poller)
    /\ held' = [held EXCEPT ![b] = @ \ {token_key}]
    /\ UNCHANGED <<bots, manager_bots, subscribers>>
    /\ ManagerFrame

\* manager.remove_bot(bot_name); the subscriptions made for the bot end
RemoveBot(bot_name) ==
    /\ LET r == remove_bot(manager_bots, bots, subscribers, token_subscribers,
                           subscribed_tokens, bot_name)
       IN  /\ manager_bots' = r.manager_bots
           /\ bots' = r.bots
           /\ subscribers' = r.subscribers
           /\ token_subscribers' = r.token_subscribers
           /\ subscribed_tokens' = r.subscribed_tokens
           /\ last' = Observe("remove_bot", bot_name, r.result)
           /\ held' = IF r.result = "removed"
                      THEN [held EXCEPT ![bot_name] = {}]
                      ELSE held
    /\ ManagerFrame

RegisterBotStep == \E b \in BotNames : RegisterBot(b)

GiveStrategyStep == \E b \in BotNames : GiveStrategy(b)

SubscribeTokenStep ==
    \E b \in BotNames, token_key \in ManagedPairs : SubscribeToken(b, token_key)

UnsubscribeTokenStep ==
    \E b \in BotNames, token_key \in ManagedPairs :
        UnsubscribeToken(b, token_key)

RemoveBotStep == \E bot_name \in BotNames : RemoveBot(bot_name)

NextManager ==
    \/ RegisterBotStep
    \/ GiveStrategyStep
    \/ SubscribeTokenStep
    \/ UnsubscribeTokenStep
    \/ RemoveBotStep

\* Bots registered and removed, tokens subscribed and unsubscribed for them
SpecManager == InitMgr /\ [][NextManager]_vars

-----------------------------------------------------------------------------
(* DexScreenerPoller: a poll cycle.  _poll_market_caps groups the subscribed  *)
(* tokens by network, cuts each network's addresses into batches and gathers  *)
(* one _process_batch coroutine per batch.  A batch task issues its fetch in  *)
(* its first step (tasks start in the order they were created), the fetches   *)
(* end in any order, and a task whose fetch has returned builds one publish   *)
(* coroutine per record before it awaits them all.                            *)

\* DexScreenerPoller.BATCH_SIZE, scaled down
BATCH_SIZE == 2

\* the tokens subscribed to the poller
PollPairs ==
    {<<"solana", "tk1">>, <<"solana", "tk2">>, <<"solana", "tk3">>,
     <<"eth", "tk1">>}

\* the orders in which iterating over a set can yield its elements
Orders(set) ==
    {order \in [1..Cardinality(set) -> set] :
        \A i, j \in 1..Cardinality(set) : i # j => order[i] # order[j]}

\* network_tokens.keys(): the networks in the order they were first met
RECURSIVE NetworkOrder(_)
NetworkOrder(order) ==
    IF order = <<>> THEN <<>>
    ELSE LET rest == NetworkOrder(SubSeq(order, 1, Len(order) - 1))
             network == order[Len(order)][1]
         IN  IF \E i \in 1..Len(rest) : rest[i] = network
             THEN rest
             ELSE Append(rest, network)

\* network_tokens[network]: the addresses of a network, in iteration order
RECURSIVE AddressesOf(_, _)
AddressesOf(order, network) ==
    IF order = <<>> THEN <<>>
    ELSE LET rest == AddressesOf(SubSeq(order, 1, Len(order) - 1), network)
         IN  IF order[Len(order)][1] = network
             THEN Append(rest, order[Len(order)][2])
             ELSE rest

\* a network's addresses in one batch, however many
BatchesOfUncut(network, tokens) ==
    IF tokens = <<>> THEN <<>>
    ELSE <<[network |-> network, batch |-> tokens]>>

\* tokens[i : i + BATCH_SIZE] for i in range(0, len(tokens), BATCH_SIZE)
RECURSIVE BatchesOf(_, _)
BatchesOf(network, tokens) ==
    IF tokens = <<>> THEN <<>>
    ELSE <<[network |-> network,
            batch |-> SubSeq(tokens, 1, Min(BATCH_SIZE, Len(tokens)))]>>
         \o BatchesOf(network, SubSeq(tokens, BATCH_SIZE + 1, Len(tokens)))

\* the batches of the first network only
BatchListFirstNetwork(order, networks) ==
    IF networks = <<>> THEN <<>>
    ELSE BatchesOf(Head(networks), AddressesOf(order, Head(networks)))

\* the (network, batch) arguments of the _process_batch coroutines, in the
\* order they are created
RECURSIVE BatchList(_, _)
BatchList(order, networks) ==
    IF networks = <<>> THEN <<>>
    ELSE BatchesOf(Head(networks), AddressesOf(order, Head(networks)))
         \o BatchList(order, Tail(networks))

\* a pair record of a response: without baseToken, or with a baseToken that
\* has an address and a marketCap that is absent, a number, or a string
\* that is no number
PairRecord(address, marketCap) ==
    [baseToken |-> Some([address |-> address, marketCap |-> marketCap])]

NoBaseToken == [baseToken |-> None]

Number(n) == <<"number", n>>

String(s) == <<"string", s>>

\* one pair per address asked for, each with a market cap
OnePairEach(batch) ==
    [i \in 1..Len(batch) |-> PairRecord(batch[i], Some(Number(100)))]

\* what a fetch can return for a batch: nothing; one pair per address; a
\* pair without baseToken before the others; a pair without marketCap; a
\* pair whose marketCap is no number after the others
Responses(batch) ==
    {<<>>,
     OnePairEach(batch),
     <<NoBaseToken>> \o OnePairEach(batch),
     <<PairRecord(Head(batch), None)>>,
     Append(OnePairEach(batch), PairRecord(Head(batch), Some(String("n/a"))))}

\* float(base_token.get("marketCap", 0))
market_cap_of(base_token) ==
    IF base_token.marketCap = None
    THEN [raised |-> FALSE, value |-> 0]
    ELSE IF base_token.marketCap[1][1] = "number"
         THEN [raised |-> FALSE, value |-> base_token.marketCap[1][2]]
         ELSE [raised |-> TRUE, value |-> 0]

\* the loop over pairs in _process_batch: the events whose publish coroutines
\* are in update_tasks when the loop ends, or the exception that ends it
RECURSIVE update_tasks_of(_, _)
update_tasks_of(network, pairs) ==
    IF pairs = <<>> THEN [raised |-> FALSE, events |-> <<>>]
    ELSE LET before == update_tasks_of(network,
                                       SubSeq(pairs, 1, Len(pairs) - 1))
             pair == pairs[Len(pairs)]
         IN  IF before.raised THEN before
             ELSE IF pair.baseToken = None THEN before
             ELSE LET cap == market_cap_of(pair.baseToken[1])
                  IN  IF cap.raised
                      THEN [raised |-> TRUE, events |-> <<>>]
                      ELSE [raised |-> FALSE,
                            events |-> Append(before.events,
                                TokenMarketCapData(network,
                                    pair.baseToken[1].address, cap.value))]

\* an exception leaving _process_batch for want of the except clause
BatchEscapesUncaught(raised) == raised

\* except Exception in _process_batch: nothing raised by the fetch or by the
\* processing of the response leaves the coroutine
BatchEscapes(raised) == FALSE

\* what a batch task is left in when its fetch or its processing raised
AfterBatchError == IF BatchEscapes(TRUE) THEN "raised" ELSE "logged"

\* the task of the polling loop, created: no cycle yet
NewLoop == [status |-> "created", cancelling |-> FALSE, tracked |-> {}]

\* the tokens subscribed from the start
FirstPairs == {<<"solana", "tk1">>, <<"solana", "tk2">>}

\* a poller with two tokens subscribed whose loop task has been created
InitCycle ==
    /\ portfolio = EmptyDict
    /\ registry = EmptyDict
    /\ token_accumulators = EmptyDict
    /\ strategies = {}
    /\ actions = {}
    /\ tasks = EmptyDict
    /\ pc = [c \in {"c1"} |-> "idle"]
    /\ call = None
    /\ last = Observe("init", None, "ok")
    /\ snap = None
    /\ token_trackers = EmptyDict
    /\ subscribers = [kind \in EventKinds |-> <<>>]
    /\ deliveries = EmptyDict
    /\ received = EmptyDict
    /\ InitManager
    /\ subscribed_tokens = FirstPairs
    /\ polling_task = Some("t1")
    /\ loop_tasks = [t \in {"t1"} |-> NewLoop]
    /\ batch_tasks = [t \in {"t1"} |-> <<>>]
    /\ fetches = <<>>
    /\ published = EmptyDict

\* what the poller steps leave alone
PollerFrame ==
    UNCHANGED <<portfolio, registry, token_accumulators, strategies, actions,
                tasks, call, snap, stopVars, busVars, bots, manager_bots,
                token_subscribers, held>>

\* poller.subscribe(network, address)
PollerSubscribe(token_key) ==
    /\ token_key \notin subscribed_tokens
    /\ subscribed_tokens' = poller_subscribe(subscribed_tokens, token_key)
    /\ UNCHANGED <<pc, last, polling_task, loop_tasks, batch_tasks, fetches,
                   published>>
    /\ PollerFrame

\* poller.unsubscribe(network, address)
PollerUnsubscribe(token_key) ==
    /\ token_key \in subscribed_tokens
    /\ subscribed_tokens' = poller_unsubscribe(subscribed_tokens, token_key)
    /\ UNCHANGED <<pc, last, polling_task, loop_tasks, batch_tasks, fetches,
                   published>>
    /\ PollerFrame

\* _poll_market_caps of loop task t up to its await, the set yielding its
\* elements in the given order: with no token the cycle is over at once
StartCycle(t, order) ==
    /\ t \in DOMAIN loop_tasks
    /\ loop_tasks[t].status \in {"created", "sleeping"}
    /\ ~loop_tasks[t].cancelling
    /\ order \in Orders(subscribed_tokens)
    /\ LET batches == BatchList(order, NetworkOrder(order))
       IN  /\ batch_tasks' = [batch_tasks EXCEPT ![t] =
                  [i \in 1..Len(batches) |->
                      [network |-> batches[i].network,
                       batch |-> batches[i].batch,
                       status |-> "pending", pairs |-> None,
                       update_tasks |-> <<>>]]]
           /\ loop_tasks' = [loop_tasks EXCEPT ![t] =
                  [@ EXCEPT !.status = IF batches = <<>> THEN "sleeping"
                                       ELSE "cycle",
                            !.tracked = subscribed_tokens]]
    /\ fetches' = <<>>
    /\ published' = EmptyDict
    /\ UNCHANGED <<pc, last, subscribed_tokens, polling_task>>
    /\ PollerFrame

\* The event loop runs batch task i of loop t for the first time: the fetch
\* is issued and the task waits for the response.
StartBatch(t, i) ==
    /\ t \in DOMAIN batch_tasks
    /\ i \in DOMAIN batch_tasks[t]
    /\ ~loop_tasks[t].cancelling
    /\ batch_tasks[t][i].status = "pending"
    /\ \A j \in 1..(i - 1) : batch_tasks[t][j].status # "pending"
    /\ batch_tasks' = [batch_tasks EXCEPT ![t][i].status = "fetching"]
    /\ fetches' = Append(fetches, [task |-> <<t, i>>,
                                   network |-> batch_tasks[t][i].network,
                                   batch |-> batch_tasks[t][i].batch])
    /\ UNCHANGED <<pc, last, subscribed_tokens, polling_task, loop_tasks,
                   published>>
    /\ PollerFrame

\* The fetch of batch task i returns pairs: the task builds its publish
\* coroutines and awaits them, or has nothing to publish, or fails on a record.
FetchReturns(t, i, pairs) ==
    /\ t \in DOMAIN batch_tasks
    /\ i \in DOMAIN batch_tasks[t]
    /\ ~loop_tasks[t].cancelling
    /\ batch_tasks[t][i].status = "fetching"
    /\ pairs \in Responses(batch_tasks[t][i].batch)
    /\ LET u == update_tasks_of(batch_tasks[t][i].network, pairs)
       IN  /\ batch_tasks' = [batch_tasks EXCEPT ![t][i] =
                  [@ EXCEPT !.status = IF u.raised THEN AfterBatchError
                                       ELSE IF u.events = <<>> THEN "done"
                                       ELSE "publishing",
                            !.pairs = Some(pairs),
                            !.update_tasks = u.events]]
    /\ UNCHANGED <<pc, last, subscribed_tokens, polling_task, loop_tasks,
                   fetches,
                   published>>
    /\ PollerFrame

\* The fetch of batch task i raises (request error, timeout, bad JSON).
FetchFails(t, i) ==
    /\ t \in DOMAIN batch_tasks
    /\ i \in DOMAIN batch_tasks[t]
    /\ ~loop_tasks[t].cancelling
    /\ batch_tasks[t][i].status = "fetching"
    /\ batch_tasks' = [batch_tasks EXCEPT ![t][i].status = AfterBatchError]
    /\ UNCHANGED <<pc, last, subscribed_tokens, polling_task, loop_tasks,
                   fetches,
                   published>>
    /\ PollerFrame

\* The publish coroutines gathered by batch task i run: each event reaches
\* the bus, and the batch task ends.
PublishUpdates(t, i) ==
    /\ t \in DOMAIN batch_tasks
    /\ i \in DOMAIN batch_tasks[t]
    /\ ~loop_tasks[t].cancelling
    /\ batch_tasks[t][i].status = "publishing"
    /\ batch_tasks' = [batch_tasks EXCEPT ![t][i].status = "done"]
    /\ published' = Put(published, <<t, i>>, batch_tasks[t][i].update_tasks)
    /\ UNCHANGED <<pc, last, subscribed_tokens, polling_task, loop_tasks,
                   fetches>>
    /\ PollerFrame

BatchStatuses(t) == {batch_tasks[t][i].status : i \in DOMAIN batch_tasks[t]}

\* The gather of the batch tasks is over, every task having ended or, before
\* that, one having raised: _poll_market_caps returns and the loop sleeps.
EndCycle(t) ==
    /\ t \in DOMAIN loop_tasks
    /\ loop_tasks[t].status = "cycle"
    /\ ~loop_tasks[t].cancelling
    /\ \/ BatchStatuses(t) \subseteq {"done", "logged"}
       \/ /\ "raised" \in BatchStatuses(t)
          /\ "pending" \notin BatchStatuses(t)
    /\ loop_tasks' = [loop_tasks EXCEPT ![t].status = "sleeping"]
    /\ UNCHANGED <<pc, last, subscribed_tokens, polling_task, batch_tasks,
                   fetches,
                   published>>
    /\ PollerFrame

PollerSubscribeStep ==
    \E token_key \in PollPairs \ FirstPairs : PollerSubscribe(token_key)

PollerUnsubscribeStep ==
    \E token_key \in PollPairs \ FirstPairs : PollerUnsubscribe(token_key)

StartCycleStep ==
    \E order \in Orders(subscribed_tokens) : StartCycle("t1", order)

StartBatchStep == \E i \in DOMAIN batch_tasks["t1"] : StartBatch("t1", i)

FetchReturnsStep ==
    \E i \in DOMAIN batch_tasks["t1"] :
        \E pairs \in Responses(batch_tasks["t1"][i].batch) :
            FetchReturns("t1", i, pairs)

FetchFailsStep == \E i \in DOMAIN batch_tasks["t1"] : FetchFails("t1", i)

PublishUpdatesStep ==
    \E i \in DOMAIN batch_tasks["t1"] : PublishUpdates("t1", i)

EndCycleStep == EndCycle("t1")

NextCycle ==
    \/ PollerSubscribeStep
    \/ PollerUnsubscribeStep
    \/ StartCycleStep
    \/ StartBatchStep
    \/ FetchReturnsStep
    \/ FetchFailsStep
    \/ PublishUpdatesStep
    \/ EndCycleStep

\* The polling loop running cycle after cycle while tokens are subscribed
\* and unsubscribed
SpecCycle == InitCycle /\ [][NextCycle]_vars

\* The same, with the event loop running every ready task and every fetch
\* ending (the client's requests time out).
SpecCycleFair ==
    /\ SpecCycle
    /\ WF_vars(StartBatchStep)
    /\ WF_vars(FetchReturnsStep \/ FetchFailsStep)
    /\ WF_vars(PublishUpdatesStep)
    /\ WF_vars(EndCycleStep)

\* a token of a second network, subscribed and unsubscribed while the loop
\* runs
OtherPair == <<"eth", "tk1">>

SubscribeOtherStep == PollerSubscribe(OtherPair)

UnsubscribeOtherStep == PollerUnsubscribe(OtherPair)

NextLoop ==
    \/ SubscribeOtherStep
    \/ UnsubscribeOtherStep
    \/ StartCycleStep
    \/ StartBatchStep
    \/ FetchReturnsStep
    \/ FetchFailsStep
    \/ PublishUpdatesStep
    \/ EndCycleStep

\* The polling loop while a token of a second network is subscribed and
\* unsubscribed, stop_polling never called: the event loop runs every ready
\* task, every fetch ends (the client's requests time out), and
\* asyncio.sleep(interval) ends, so that the loop goes from one cycle to the
\* next.
SpecLoopFair ==
    /\ InitCycle
    /\ [][NextLoop]_vars
    /\ WF_vars(StartBatchStep)
    /\ WF_vars(FetchReturnsStep \/ FetchFailsStep)
    /\ WF_vars(PublishUpdatesStep)
    /\ WF_vars(EndCycleStep)
    /\ WF_vars(StartCycleStep)

-----------------------------------------------------------------------------
(* DexScreenerPoller: start_polling and stop_polling.  start_polling has no   *)
(* await: it runs as one step.  stop_polling asks the loop task to cancel and *)
(* awaits it; the task gets the CancelledError at its next step, wherever it  *)
(* waits (a CancelledError passes the except Exception clauses), and the      *)
(* tasks it has gathered are cancelled with it.                               *)

\* the most polling loop tasks created
MaxLoops == 3

\* the coroutines that call start_polling and stop_polling
Callers == {"c1", "c2"}

\* DexScreenerPoller.start_polling()
start_polling(task, loops) ==
    IF task # None
    THEN [polling_task |-> task, loop_tasks |-> loops, created |-> None]
    ELSE LET t == Cardinality(DOMAIN loops) + 1
         IN  [polling_task |-> Some(t), loop_tasks |-> Put(loops, t, NewLoop),
              created |-> Some(t)]

\* Task.cancel(): a task that has not ended is to get a CancelledError
cancel(loop) ==
    [loop EXCEPT !.cancelling = (loop.status # "cancelled")]

\* await self._polling_task: over when the task has ended
AwaitOver(status) == status = "cancelled"

\* a poller with two tokens subscribed; nobody has called start_polling
InitPolling ==
    /\ portfolio = EmptyDict
    /\ registry = EmptyDict
    /\ token_accumulators = EmptyDict
    /\ strategies = {}
    /\ actions = {}
    /\ tasks = EmptyDict
    /\ pc = [c \in Callers |-> "idle"]
    /\ call = EmptyDict
    /\ last = Observe("init", None, "ok")
    /\ snap = None
    /\ token_trackers = EmptyDict
    /\ subscribers = [kind \in EventKinds |-> <<>>]
    /\ deliveries = EmptyDict
    /\ received = EmptyDict
    /\ InitManager
    /\ subscribed_tokens = FirstPairs
    /\ polling_task = None
    /\ loop_tasks = EmptyDict
    /\ batch_tasks = EmptyDict
    /\ fetches = <<>>
    /\ published = EmptyDict

\* await poller.start_polling() by caller c
StartPolling(c) ==
    /\ pc[c] = "idle"
    /\ Cardinality(DOMAIN loop_tasks) < MaxLoops
    /\ LET r == start_polling(polling_task, loop_tasks)
       IN  /\ polling_task' = r.polling_task
           /\ loop_tasks' = r.loop_tasks
           /\ batch_tasks' = IF r.created = None THEN batch_tasks
                             ELSE Put(batch_tasks, r.created[1], <<>>)
           /\ last' = Observe("start_polling", c, r.created)
    /\ UNCHANGED <<pc, call, subscribed_tokens, fetches, published>>
    /\ UNCHANGED <<portfolio, registry, token_accumulators, strategies,
                   actions, tasks, snap, stopVars, busVars, bots,
                   manager_bots, token_subscribers, held>>

\* await poller.stop_polling() by caller c, up to its await: with no task it
\* returns at once
StopPolling(c) ==
    /\ pc[c] = "idle"
    /\ IF polling_task = None
       THEN /\ last' = Observe("stop_polling", c, None)
            /\ UNCHANGED <<pc, call, loop_tasks>>
       ELSE /\ loop_tasks' = [loop_tasks EXCEPT ![polling_task[1]] = cancel(@)]
            /\ pc' = [pc EXCEPT ![c] = "stopping"]
            /\ call' = Put(call, c, polling_task[1])
            /\ UNCHANGED last
    /\ UNCHANGED <<subscribed_tokens, polling_task, batch_tasks, fetches,
                   published>>
    /\ UNCHANGED <<portfolio, registry, token_accumulators, strategies,
                   actions, tasks, snap, stopVars, busVars, bots,
                   manager_bots, token_subscribers, held>>

\* The task caller c awaits has ended: stop_polling drops the reference and
\* returns.
StopReturn(c) ==
    /\ pc[c] = "stopping"
    /\ AwaitOver(loop_tasks[call[c]].status)
    /\ polling_task' = None
    /\ pc' = [pc EXCEPT ![c] = "idle"]
    /\ call' = Del(call, c)
    /\ last' = Observe("stop_polling", c, Some(call[c]))
    /\ UNCHANGED <<subscribed_tokens, loop_tasks, batch_tasks, fetches,
                   published>>
    /\ UNCHANGED <<portfolio, registry, token_accumulators, strategies,
                   actions, tasks, snap, stopVars, busVars, bots,
                   manager_bots, token_subscribers, held>>

\* The loop task t gets its CancelledError: the batch tasks it awaits are
\* cancelled and the task ends.
CancelLoop(t) ==
    /\ t \in DOMAIN loop_tasks
    /\ loop_tasks[t].cancelling
    /\ loop_tasks' = [loop_tasks EXCEPT ![t] =
           [@ EXCEPT !.status = "cancelled", !.cancelling = FALSE]]
    /\ batch_tasks' = [batch_tasks EXCEPT ![t] =
           [i \in DOMAIN @ |->
               IF @[i].status \in {"done", "logged"} THEN @[i]
               ELSE [@[i] EXCEPT !.status = "cancelled"]]]
    /\ UNCHANGED <<pc, call, last, subscribed_tokens, polling_task, fetches,
                   published>>
    /\ UNCHANGED <<portfolio, registry, token_accumulators, strategies,
                   actions, tasks, snap, stopVars, busVars, bots,
                   manager_bots, token_subscribers, held>>

StartPollingStep == \E c \in Callers : StartPolling(c)

StopPollingStep == \E c \in Callers : StopPolling(c)

StopReturnStep == \E c \in Callers : StopReturn(c)

CancelLoopStep == \E t \in DOMAIN loop_tasks : CancelLoop(t)

LoopCycleStep ==
    \E t \in DOMAIN loop_tasks, order \in Orders(subscribed_tokens) :
        StartCycle(t, order)

LoopBatchStep ==
    \E t \in DOMAIN loop_tasks : \E i \in DOMAIN batch_tasks[t] :
        StartBatch(t, i)

LoopFetchStep ==
    \E t \in DOMAIN loop_tasks : \E i \in DOMAIN batch_tasks[t] :
        \/ FetchReturns(t, i, OnePairEach(batch_tasks[t][i].batch))
        \/ FetchFails(t, i)

LoopPublishStep ==
    \E t \in DOMAIN loop_tasks : \E i \in DOMAIN batch_tasks[t] :
        PublishUpdates(t, i)

LoopEndCycleStep == \E t \in DOMAIN loop_tasks : EndCycle(t)

NextPolling ==
    \/ StartPollingStep
    \/ StopPollingStep
    \/ StopReturnStep
    \/ CancelLoopStep
    \/ LoopCycleStep
    \/ LoopBatchStep
    \/ LoopFetchStep
    \/ LoopPublishStep
    \/ LoopEndCycleStep

\* Two coroutines calling start_polling and stop_polling in any order while
\* the loops they start run their cycles
SpecPolling == InitPolling /\ [][NextPolling]_vars

-----------------------------------------------------------------------------
(* Two bots on one bus.  Each bot is built with a CopyStrategy and a          *)
(* StopLossStrategy of its own; the constructors give every strategy object   *)
(* its own dict.  The TokenRegistry is a class-level dict that the bots of    *)
(* one process share.  Next to the two bots the second bot is run once more,  *)
(* alone in a process of its own (snap): same events, nothing of the first.   *)

\* the balance each bot is built with
BalanceOf == [name \in BotNames |-> IF name = "b1" THEN InitialBalance ELSE 3]

\* Bot(name) after build: the ledger, and the dicts of its two strategies
BuiltBot(name) ==
    [portfolio |-> Put(EmptyDict, BaseToken, BalanceOf[name]),
     token_accumulators |-> EmptyDict,
     token_trackers |-> EmptyDict]

\* CopyStrategy.__init__: self.token_accumulators = {} for each instance
AccumulatorsOf(objects, name) == objects[name].token_accumulators

\* StopLossStrategy.__init__: self.token_trackers = {} for each instance
TrackersOf(objects, name) == objects[name].token_trackers

\* Bot.handle_event(event) of bot name: the objects and the registry it leaves
bot_handles(objects, reg, name, kind, data) ==
    LET bot == objects[name]
    IN  IF kind = "RAY_BOT"
        THEN LET r == handle_event(bot.portfolio, reg,
                                   AccumulatorsOf(objects, name), EventKinds,
                                   {"BUY", "SELL"}, data)
             IN  [bots |-> Put(objects, name,
                               [bot EXCEPT !.portfolio = r.portfolio,
                                           !.token_accumulators = r.accs]),
                  registry |-> r.registry]
        ELSE LET r == handle_market_cap(bot.portfolio, reg,
                                        TrackersOf(objects, name), EventKinds,
                                        {"BUY", "SELL"}, data)
             IN  [bots |-> Put(objects, name,
                               [bot EXCEPT !.token_trackers = r.trackers]),
                  registry |-> r.registry]

\* the signals and the updates the two bots get: one token
TwoBotSignals ==
    {RayMessage(Some(w), Some(a), Some(TokenData(TK1, Some(1), Some(2))), 1) :
        w \in DOMAIN trader_weights, a \in {SignalBUY, SignalSELL}}

TwoBotUpdates == {TokenMarketCapData("solana", "tk1", m) : m \in {100, 120, 150}}

\* the process with the second bot alone
Alone == [bots |-> [name \in {"b2"} |-> BuiltBot(name)],
          registry |-> Put(EmptyDict, BaseToken,
                           [price |-> Some(1), market_cap |-> Some(1000000)])]

\* the first bot built and subscribed; the second built, not yet subscribed
InitTwoBots ==
    /\ portfolio = EmptyDict
    /\ registry = Put(EmptyDict, BaseToken,
                      [price |-> Some(1), market_cap |-> Some(1000000)])
    /\ token_accumulators = EmptyDict
    /\ strategies = {}
    /\ actions = {}
    /\ tasks = EmptyDict
    /\ pc = [c \in {"c1"} |-> "idle"]
    /\ call = None
    /\ last = Observe("init", None, "ok")
    /\ snap = Alone
    /\ token_trackers = EmptyDict
    /\ subscribers = [kind \in EventKinds |->
                        IF kind = "POSITION_SIZING" THEN <<>> ELSE <<"b1">>]
    /\ deliveries = EmptyDict
    /\ received = EmptyDict
    /\ InitPoller
    /\ bots = [name \in BotNames |-> BuiltBot(name)]
    /\ manager_bots = BotNames
    /\ token_subscribers = EmptyDict
    /\ held = EmptyDict

TwoBotFrame ==
    UNCHANGED <<portfolio, token_accumulators, strategies, actions, tasks, pc,
                last, stopVars, deliveries, received, manager_bots,
                token_subscribers, subscribed_tokens, held, pollVars>>

\* b2.set_strategy for the two kinds: the second bot joins the bus
JoinBus ==
    /\ call = None
    /\ \A kind \in {"RAY_BOT", "MARKET_CAP_UPDATE"} :
            \A i \in DOMAIN subscribers[kind] : subscribers[kind][i] # "b2"
    /\ subscribers' = [kind \in EventKinds |->
                         IF kind = "POSITION_SIZING" THEN subscribers[kind]
                         ELSE Append(subscribers[kind], "b2")]
    /\ UNCHANGED <<registry, call, snap, bots>>
    /\ TwoBotFrame

\* EventBus.publish(Event(kind, data)): the callbacks of the kind are to run,
\* in subscription order
PublishToBoth(kind, data) ==
    /\ call = None
    /\ call' = Some([kind |-> kind, data |-> data, names |-> subscribers[kind]])
    /\ UNCHANGED <<registry, snap, subscribers, bots>>
    /\ TwoBotFrame

\* the next callback of the publish runs to its end; the second bot handles
\* the same event in the process where it is alone
RunNextBot ==
    /\ call # None
    /\ LET c == call[1]
           name == Head(c.names)
           r == bot_handles(bots, registry, name, c.kind, c.data)
           s == bot_handles(snap.bots, snap.registry, name, c.kind, c.data)
       IN  /\ bots' = r.bots
           /\ registry' = r.registry
           /\ snap' = IF name = "b2" THEN s ELSE snap
           /\ call' = IF Tail(c.names) = <<>> THEN None
                      ELSE Some([c EXCEPT !.names = Tail(c.names)])
    /\ UNCHANGED subscribers
    /\ TwoBotFrame

\* b2.update_portfolio((network, address), q), in both processes
HoldUnderStopKey(q) ==
    /\ call = None
    /\ LET key == <<"solana", "tk1">>
           r == update_portfolio(bots["b2"].portfolio, key, q)
           s == update_portfolio(snap.bots["b2"].portfolio, key, q)
       IN  /\ get_position(bots["b2"].portfolio, key) # q
           /\ bots' = [bots EXCEPT !["b2"].portfolio = r.portfolio]
           /\ snap' = [snap EXCEPT !.bots["b2"].portfolio = s.portfolio]
    /\ UNCHANGED <<registry, call, subscribers>>
    /\ TwoBotFrame

JoinBusStep == JoinBus

PublishSignalStep == \E data \in TwoBotSignals : PublishToBoth("RAY_BOT", data)

PublishUpdateStep == \E data \in TwoBotUpdates : PublishToBoth("MARKET_CAP_UPDATE", data)

RunNextBotStep == RunNextBot

HoldUnderStopKeyStep == \E q \in {0, 1} : HoldUnderStopKey(q)

NextTwoBots ==
    \/ JoinBusStep
    \/ PublishSignalStep
    \/ PublishUpdateStep
    \/ RunNextBotStep
    \/ HoldUnderStopKeyStep

SpecTwoBots == InitTwoBots /\ [][NextTwoBots]_vars

-----------------------------------------------------------------------------
(* SizingStrategy.get_position_size on its own: two token_meta dicts are      *)
(* sized one after the other, so that the quantities of two market caps can   *)
(* be compared.  A dict may lack its market cap or its price, and either may  *)
(* be 0 or negative.                                                          *)

\* the token_meta dicts handed to get_position_size
SizingInputs ==
    {TokenData(TK1, price, market_cap) :
        price \in {None} \cup {Some(pr) : pr \in -1..2},
        market_cap \in {None} \cup {Some(m) : m \in -1..MaxCap}}

\* a sizing strategy and two token_meta dicts to size
InitSizing ==
    /\ portfolio = EmptyDict
    /\ registry = EmptyDict
    /\ token_accumulators = EmptyDict
    /\ strategies = {"POSITION_SIZING"}
    /\ actions = {}
    /\ tasks = EmptyDict
    /\ pc = [c \in {"c1"} |-> "idle"]
    /\ call \in SizingInputs \X SizingInputs
    /\ last = Observe("init", None, "ok")
    /\ snap = None
    /\ token_trackers = EmptyDict
    /\ subscribers = [kind \in EventKinds |-> <<>>]
    /\ deliveries = EmptyDict
    /\ received = EmptyDict
    /\ InitManager
    /\ InitPoller

\* sizing_strategy.get_position_size(bot, token_meta) for the two dicts
GetPositionSize ==
    /\ pc["c1"] = "idle"
    /\ pc' = [pc EXCEPT !["c1"] = "done"]
    /\ last' = Observe("get_position_size", None,
                       <<get_position_size(call[1]), get_position_size(call[2])>>)
    /\ UNCHANGED <<portfolio, registry, token_accumulators, strategies, actions,
                   tasks, call, snap, stopVars, busVars, mgrVars, pollVars>>

NextSizing == GetPositionSize

SpecSizing == InitSizing /\ [][NextSizing]_vars

-----------------------------------------------------------------------------
(* BUY signals whose token dict carries any price and market cap: missing, 0, *)
(* negative or positive.  The values are chosen so that every quantity that   *)
(* is positive is a whole number.                                             *)

\* the token dicts of these signals
IntentTokens ==
    {TokenData(TK1, price, market_cap) :
        price \in {None} \cup {Some(pr) : pr \in {-1, 0, 1, 2}},
        market_cap \in {None} \cup {Some(m) : m \in {-1, 0, 2, 4}}}

IntentSignals ==
    {RayMessage(Some(w), Some(SignalBUY), Some(t), 1) :
        w \in DOMAIN trader_weights, t \in IntentTokens}

\* a BUY signal is published while the position is within the bound
PublishIntent ==
    /\ Get(portfolio, TK1) <= MaxHold
    /\ \E data \in IntentSignals : Publish("c1", data)

NextIntent == PublishIntent \/ HandleSignal \/ ReturnSignal

SpecIntent == InitBuilt /\ [][NextIntent]_vars

-----------------------------------------------------------------------------
(* Two publish calls by one caller, the second issued when the await of the   *)
(* first is over (publish has returned, or has raised and the caller has      *)
(* caught the exception).  c1 and c2 name the two calls.                      *)

\* the subscriber lists of the kind: one or two callbacks of any behaviour
SubscriberLists ==
    {<<h>> : h \in Callbacks} \cup {<<h, g>> : h \in Callbacks, g \in Callbacks}

InitSequential ==
    /\ portfolio = EmptyDict
    /\ registry = EmptyDict
    /\ token_accumulators = EmptyDict
    /\ strategies = {}
    /\ actions = {}
    /\ tasks = EmptyDict
    /\ pc = [c \in {"c1", "c2"} |-> "idle"]
    /\ call = None
    /\ last = Observe("init", None, "ok")
    /\ snap = None
    /\ token_trackers = EmptyDict
    /\ \E list \in SubscriberLists :
            subscribers = [kind \in EventKinds |->
                             IF kind = "RAY_BOT" THEN list ELSE <<>>]
    /\ deliveries = EmptyDict
    /\ received = [h \in Callbacks |-> <<>>]
    /\ InitManager
    /\ InitPoller

\* await bus.publish(event) is over for the caller
AwaitIsOver(c) == pc[c] \in {"returned", "raised"}

PublishFirstCall == PublishEvent("c1", "RAY_BOT")

PublishNextCall == AwaitIsOver("c1") /\ PublishEvent("c2", "RAY_BOT")

RunAnyTask == \E c \in {"c1", "c2"}, i \in 1..MaxSubs : RunTask(c, i)

ResumeAnyTask == \E c \in {"c1", "c2"}, i \in 1..MaxSubs : ResumeTask(c, i)

ReturnAnyGather == \E c \in {"c1", "c2"} : GatherReturn(c)

RaiseAnyGather == \E c \in {"c1", "c2"} : GatherRaise(c)

NextSequential ==
    \/ PublishFirstCall
    \/ PublishNextCall
    \/ RunAnyTask
    \/ ResumeAnyTask
    \/ ReturnAnyGather
    \/ RaiseAnyGather

SpecSequential == InitSequential /\ [][NextSequential]_vars

-----------------------------------------------------------------------------
(* Bot: the name-to-action map.  Here actions is the dict Bot._actions        *)
(* itself, from the names as they were given to set_action to the action      *)
(* objects; a name is the sequence of its characters.                         *)

LowerLetters == <<"b", "e", "l", "s", "u", "y">>

UpperLetters == <<"B", "E", "L", "S", "U", "Y">>

\* str.upper on one character: a lower-case letter becomes its capital,
\* every other character is kept
upper_char(c) ==
    IF \E i \in DOMAIN LowerLetters : LowerLetters[i] = c
    THEN UpperLetters[CHOOSE i \in DOMAIN LowerLetters : LowerLetters[i] = c]
    ELSE c

\* action_name.upper()
upper(action_name) == [i \in DOMAIN action_name |-> upper_char(action_name[i])]

\* Bot.set_action(action_name, action): self._actions[action_name] = action
set_action(acts, action_name, action) == Put(acts, action_name, action)

\* Bot.get_action(action_name): self._actions.get(action_name.upper())
get_action(acts, action_name) ==
    IF upper(action_name) \in DOMAIN acts
    THEN Some(acts[upper(action_name)])
    ELSE None

\* the names actions are registered and looked up under: "BUY" and "SELL" as
\* the builder and the strategies write them, and the same in other cases
ActionNames ==
    {<<"B", "U", "Y">>, <<"b", "u", "y">>, <<"B", "u", "y">>,
     <<"S", "E", "L", "L">>, <<"s", "e", "l", "l">>}

\* the action objects: a Buy and a Sell instance
ActionObjects == {"Buy(base_token)", "Sell(base_token)"}

\* Bot.__init__: self._actions = {}
InitActions ==
    /\ portfolio = EmptyDict
    /\ registry = EmptyDict
    /\ token_accumulators = EmptyDict
    /\ strategies = {}
    /\ actions = EmptyDict
    /\ tasks = EmptyDict
    /\ pc = EmptyDict
    /\ call = None
    /\ last = Observe("init", None, "ok")
    /\ snap = None
    /\ token_trackers = EmptyDict
    /\ subscribers = [kind \in EventKinds |-> <<>>]
    /\ deliveries = EmptyDict
    /\ received = EmptyDict
    /\ InitManager
    /\ InitPoller

ActionsFrame ==
    UNCHANGED <<portfolio, registry, token_accumulators, strategies, tasks,
                pc, call, snap, stopVars, busVars, mgrVars, pollVars>>

\* bot.set_action(action_name, action)
SetAction ==
    \E action_name \in ActionNames, action \in ActionObjects :
        /\ actions' = set_action(actions, action_name, action)
        /\ last' = Observe("set_action", action_name, action)
        /\ ActionsFrame

\* bot.get_action(action_name)
GetAction ==
    \E action_name \in ActionNames :
        /\ last' = Observe("get_action", action_name,
                           get_action(actions, action_name))
        /\ UNCHANGED actions
        /\ ActionsFrame

NextActions == SetAction \/ GetAction

\* Any sequence of set_action and get_action calls on one bot.
SpecActions == InitActions /\ [][NextActions]_vars

-----------------------------------------------------------------------------
(* Claims about the ledger, checked under SpecLedger *)

\* entry k is the same in p and q (present in both or absent in both)
SameEntry(p, q, k) == (k \in DOMAIN p <=> k \in DOMAIN q) /\ Get(p, k) = Get(q, k)

\* the step runs the pending call, which is a call of op
Runs(op) == call # None /\ call' = None /\ call[1].op = op

\* the pending call carries a token and its price is a number
HasPrice(data) ==
    data.token # None /\ TradePrice(get_or_create_token(registry, data.token[1]), data) # None

PriceOf(data) == TradePrice(get_or_create_token(registry, data.token[1]), data)[1]

CostOf(data) == PriceOf(data) * data.quantity

\* C1: in every reachable state, after any sequence of accepted or rejected
\* update_portfolio, add_to_portfolio, Buy.execute and Sell.execute calls,
\* every entry of the portfolio is >= 0.
C1_NonNegative == \A k \in DOMAIN portfolio : portfolio[k] >= 0

\* C1 witness: a buy has spent the whole base balance.
C1_Witness ==
    /\ last.op = "buy" /\ last.result = "bought"
    /\ BASE \in DOMAIN portfolio /\ portfolio[BASE] = 0
    /\ \E k \in DOMAIN portfolio : portfolio[k] > 0

\* C2 (as claimed): Sell.execute with quantity q > 0 at price p on a holding
\* h > 0 of a token other than the base token leaves h - min(q, h) of the
\* token in the ledger and raises the base balance by min(q, h) * p.
C2_SellClamps ==
    [][(/\ Runs("sell")
        /\ HasPrice(call[1].data)
        /\ DataKey(call[1].data) # BaseToken
        /\ call[1].data.quantity > 0
        /\ Get(portfolio, DataKey(call[1].data)) > 0)
       => LET data == call[1].data
              key == DataKey(data)
              h == Get(portfolio, key)
              sold == Min(data.quantity, h)
          IN  /\ get_position(portfolio', key) = h - sold
              /\ Get(portfolio', BaseToken)
                   = Get(portfolio, BaseToken) + sold * PriceOf(data)]_vars

\* C3: a Buy.execute whose cost = price * quantity exceeds the base balance is
\* rejected and leaves every entry of the portfolio unchanged.
C3_BuyRejected ==
    [][(/\ Runs("buy")
        /\ HasPrice(call[1].data)
        /\ CostOf(call[1].data) > Get(portfolio, BaseToken))
       => /\ portfolio' = portfolio
          /\ last'.result = "insufficient"]_vars

\* C3 witness: a buy was rejected for a balance that is positive but too small.
C3_Witness ==
    /\ last.op = "buy" /\ last.result = "insufficient"
    /\ Get(portfolio, BaseToken) > 0

\* C4 (as claimed): an accepted Buy.execute lowers the base balance by exactly
\* cost, raises the target token's entry by exactly quantity and leaves every
\* other entry unchanged.
C4_BuyEffectAnyToken ==
    [][(/\ Runs("buy")
        /\ HasPrice(call[1].data)
        /\ call[1].data.quantity > 0
        /\ CostOf(call[1].data) <= Get(portfolio, BaseToken))
       => LET data == call[1].data
              key == DataKey(data)
          IN  /\ Get(portfolio', BaseToken) = Get(portfolio, BaseToken) - CostOf(data)
              /\ Get(portfolio', key) = Get(portfolio, key) + data.quantity
              /\ \A k \in TokenKeys \ {BaseToken, key} :
                   SameEntry(portfolio', portfolio, k)]_vars

\* C4 (amended): an accepted Buy.execute of a token other than the base token
\* lowers the base balance by exactly cost, raises the token's entry by exactly
\* quantity and leaves every other entry unchanged; when the target is the
\* base token itself, its single entry changes by quantity - cost.
C4_BuyEffect ==
    [][(/\ Runs("buy")
        /\ HasPrice(call[1].data)
        /\ call[1].data.quantity > 0
        /\ CostOf(call[1].data) <= Get(portfolio, BaseToken))
       => LET data == call[1].data
              key == DataKey(data)
          IN  /\ last'.result = "bought"
              /\ key # BaseToken =>
                   /\ Get(portfolio', BaseToken)
                        = Get(portfolio, BaseToken) - CostOf(data)
                   /\ Get(portfolio', key) = Get(portfolio, key) + data.quantity
              /\ key = BaseToken =>
                   Get(portfolio', BaseToken)
                     = Get(portfolio, BaseToken) - CostOf(data) + data.quantity
              /\ \A k \in TokenKeys \ {BaseToken, key} :
                   SameEntry(portfolio', portfolio, k)]_vars

\* C4 witness: a buy of TK1 was accepted while the ledger holds a third entry
\* and TK1 was already held before.
C4_Witness ==
    /\ last.op = "buy" /\ last.result = "bought" /\ last.key = TK1
    /\ TK2 \in DOMAIN portfolio /\ portfolio[TK2] > 0
    /\ portfolio[TK1] = 2

\* C5: add_to_portfolio(key, delta) with current(key) + delta < 0 raises and
\* leaves the whole portfolio unchanged; otherwise only the entry for key
\* changes, to current(key) + delta.
C5_AddToPortfolio ==
    [][Runs("add_to_portfolio")
       => LET token_key == DataKey(call[1].data)
              quantity == call[1].data.quantity
          IN  IF Get(portfolio, token_key) + quantity < 0
              THEN portfolio' = portfolio /\ last'.result = "raised"
              ELSE /\ last'.result = "ok"
                   /\ token_key \in DOMAIN portfolio'
                   /\ portfolio'[token_key] = Get(portfolio, token_key) + quantity
                   /\ \A k \in TokenKeys \ {token_key} :
                        SameEntry(portfolio', portfolio, k)]_vars

\* C5 witness: a reduction larger than a positive balance was refused.
C5_Witness ==
    /\ last.op = "add_to_portfolio" /\ last.result = "raised"
    /\ Get(portfolio, last.key) > 0

-----------------------------------------------------------------------------
(* Claims about the copy strategy, checked under SpecCopy *)

\* the step runs the handler coroutine of caller c
Handles(c) ==
    /\ c \in DOMAIN tasks
    /\ tasks[c].status = "pending"
    /\ c \in DOMAIN tasks'
    /\ tasks'[c].status = "done"

\* the signal the handler of the sequential caller is about to process
Sig == tasks["c1"].event

BuyWeight(accs, k) == IF k \in DOMAIN accs THEN accs[k].buy_weight ELSE 0

SellWeight(accs, k) == IF k \in DOMAIN accs THEN accs[k].sell_weight ELSE 0

\* the handler processes a signal of the given side that passes validation
HandlesValid(side) ==
    /\ Handles("c1")
    /\ Sig \in ValidSignals
    /\ Sig.action = Some(side)

\* C6: a valid BUY signal of weight w for a token whose buy weight is b emits
\* a BUY intent if and only if b + w >= buy_threshold; the intent is the only
\* one of that signal; the buy weight is then 0 and otherwise b + w, so it
\* stays below the threshold and a following signal whose weight alone is
\* below the threshold emits nothing.
C6_BuyThreshold ==
    [][HandlesValid(SignalBUY) =>
        LET k == KeyOf(Sig.token[1])
            b == BuyWeight(token_accumulators, k)
            w == trader_weights[Sig.wallet[1]]
        IN  /\ (last'.decision = Some(SignalBUY)) <=> (b + w >= buy_threshold)
            /\ last'.decision \in {None, Some(SignalBUY)}
            /\ BuyWeight(token_accumulators', k) =
                    IF b + w >= buy_threshold THEN 0 ELSE b + w
            /\ BuyWeight(token_accumulators', k) < buy_threshold
            /\ (b = 0 /\ w < buy_threshold) => last'.decision = None
            /\ SellWeight(token_accumulators', k) = SellWeight(token_accumulators, k)
      ]_vars

\* C6 witness: trader B's signal (weight 2) has just crossed the threshold of
\* 3 after trader A's (weight 1): a BUY intent was emitted and the buy weight
\* of the token is back to 0.
C6_Witness ==
    /\ last.op = "signal"
    /\ last.key = TK1
    /\ last.decision = Some(SignalBUY)
    /\ last.result = "bought"
    /\ token_accumulators[TK1].buy_weight = 0

\* C7: a valid SELL signal for a token whose position is 0 leaves the
\* strategy's state (the accumulators) as it was, emits no intent and leaves
\* the ledger unchanged.
C7_SellIgnored ==
    [][(HandlesValid(SignalSELL) /\ Get(portfolio, KeyOf(Sig.token[1])) = 0) =>
        /\ token_accumulators' = token_accumulators
        /\ last'.decision = None
        /\ last'.trade = None
        /\ portfolio' = portfolio
      ]_vars

\* C8: a valid SELL signal that brings the sell weight of a token with
\* position h > 0 to the sell threshold emits a SELL intent whose quantity is
\* h, and once the intent is handled the position of the token is 0.
C8_SellAll ==
    [][(/\ HandlesValid(SignalSELL)
        /\ Get(portfolio, KeyOf(Sig.token[1])) > 0
        /\ SellWeight(token_accumulators, KeyOf(Sig.token[1]))
             + trader_weights[Sig.wallet[1]] >= sell_threshold) =>
        /\ last'.decision = Some(SignalSELL)
        /\ last'.trade # None
        /\ last'.trade[1].quantity = Get(portfolio, KeyOf(Sig.token[1]))
        /\ Get(portfolio', KeyOf(Sig.token[1])) = 0
      ]_vars

\* C9: a signal from a wallet outside the copy list, or with the wallet, the
\* action, the token or the amount missing, is dropped: accumulators, ledger
\* and registry stay as they were, no accumulator is created, no intent is
\* emitted and no trade is handed to an action.
C9_InvalidDropped ==
    [][(Handles("c1") /\ Sig \in InvalidSignals) =>
        /\ token_accumulators' = token_accumulators
        /\ DOMAIN token_accumulators' = DOMAIN token_accumulators
        /\ portfolio' = portfolio
        /\ registry' = registry
        /\ last'.decision = None
        /\ last'.trade = None
      ]_vars

\* C9 witness: a signal for TK2 was dropped as invalid while TK1 has
\* accumulated weight, and TK2 has no accumulator.
C9_Witness ==
    /\ last.op = "signal"
    /\ last.result = "invalid"
    /\ last.key = TK2
    /\ TK2 \notin DOMAIN token_accumulators
    /\ TK1 \in DOMAIN token_accumulators
    /\ token_accumulators[TK1].buy_weight > 0

-----------------------------------------------------------------------------
(* Claims about overlapping publish calls, checked under SpecConc *)

\* the handler of signal a, then the handler of signal b, from state s0
SeqRun(s0, a, b) ==
    LET r1 == handle_event(s0.portfolio, s0.registry, s0.accs, strategies,
                           actions, a)
        r2 == handle_event(r1.portfolio, r1.registry, r1.accs, strategies,
                           actions, b)
    IN  [state |-> [portfolio |-> r2.portfolio, registry |-> r2.registry,
                    accs |-> r2.accs],
         first |-> Some(Outcome(r1)), second |-> Some(Outcome(r2))]

BothHandled ==
    /\ snap # None
    /\ \A c \in {"c1", "c2"} : c \in DOMAIN tasks /\ tasks[c].status = "done"

\* C10: when two publish calls for the same token overlap, the accumulators,
\* the ledger, the registry and the intent of each signal are, once both
\* handlers have run, those of handling the two signals one after the other
\* in one of the two orders: neither signal's weight is lost.
C10_Serializable ==
    BothHandled =>
        LET now == [portfolio |-> portfolio, registry |-> registry,
                    accs |-> token_accumulators]
            ab == SeqRun(snap[1], tasks["c1"].event, tasks["c2"].event)
            ba == SeqRun(snap[1], tasks["c2"].event, tasks["c1"].event)
        IN  \/ /\ now = ab.state
               /\ tasks["c1"].outcome = ab.first
               /\ tasks["c2"].outcome = ab.second
            \/ /\ now = ba.state
               /\ tasks["c2"].outcome = ba.first
               /\ tasks["c1"].outcome = ba.second

\* C10 witness: two overlapping BUY signals have both been handled and both
\* publish calls have returned; exactly one of the two emitted the BUY intent
\* and the weight of the other is in the accumulator.
C10_Witness ==
    /\ BothHandled
    /\ \A c \in {"c1", "c2"} : pc[c] = "returned"
    /\ tasks["c1"].event.action = Some(SignalBUY)
    /\ tasks["c2"].event.action = Some(SignalBUY)
    /\ tasks["c1"].outcome[1].decision = None
    /\ tasks["c2"].outcome[1].decision = Some(SignalBUY)
    /\ token_accumulators[TK1].buy_weight = 1

-----------------------------------------------------------------------------
(* Claims about the atomicity of a buy, checked under SpecAtomic *)

\* the step is a step of handler d and of no other handler
OwnStep(d) ==
    /\ d \in DOMAIN tasks'
    /\ tasks'[d].status # tasks[d].status
    /\ \A c \in DOMAIN tasks \ {d} : c \in DOMAIN tasks' /\ tasks'[c] = tasks[c]

\* C11: while a handler is between the balance check and the debit of a buy,
\* or between the debit and the credit, every step the program takes is that
\* handler's own: no other handler, publisher or reader runs, so none of them
\* sees the ledger with the buy half applied.
C11_Atomic ==
    [][\A d \in {"c1", "c2"} : Inside(d) => OwnStep(d)]_vars

\* C11 witness: the handler of the first call has debited the base token and
\* not yet credited the bought token, while the handler of an overlapping
\* call for the same bot is waiting to run.
C11_Witness ==
    /\ "c1" \in DOMAIN tasks
    /\ "c2" \in DOMAIN tasks
    /\ tasks["c1"].status = "debited"
    /\ tasks["c2"].status = "pending"
    /\ Get(portfolio, BaseToken) < InitialBalance
    /\ Get(portfolio, TK1) = 0

\* C12: a BUY signal that crosses the threshold and whose trade is then
\* rejected (missing price, sizing result of 0, no sizing strategy, no BUY
\* action, insufficient base balance) leaves the ledger and the buy weight of
\* the token as they were before the signal.
C12_FailClean ==
    [][(/\ HandlesValid(SignalBUY)
        /\ last'.decision = Some(SignalBUY)
        /\ last'.result \in {"no_price", "zero_size", "no_sizing", "no_action",
                             "insufficient"}) =>
        /\ portfolio' = portfolio
        /\ BuyWeight(token_accumulators', KeyOf(Sig.token[1]))
             = BuyWeight(token_accumulators, KeyOf(Sig.token[1]))
      ]_vars

-----------------------------------------------------------------------------
(* Claims about the stop-loss strategy, checked under SpecStop *)

\* the market-cap update the handler is about to process
Upd == tasks["c1"].event

\* the key under which the Buy action records a position in the token
BuyKey(token_meta) == <<token_meta.address, token_meta.network>>

Max(a, b) == IF a > b THEN a ELSE b

\* the high and the last market cap of the token's tracker once the update is
\* recorded: those of a new tracker, or of the existing one brought up to date
HighAfter(token_meta) ==
    IF StopKey(token_meta) \in DOMAIN token_trackers
    THEN Max(token_trackers[StopKey(token_meta)].market_cap_high,
             token_meta.market_cap)
    ELSE token_meta.market_cap

\* the handler runs on an update for a token in which the strategy finds a
\* position
HandlesTracked == Handles("c1") /\ get_position(portfolio, StopKey(Upd)) > 0

\* C13: on a market-cap update m for a token in which the bot holds a
\* position recorded by the Buy action, and for which no tracker exists, the
\* strategy creates a tracker for the token with high = last = m.
C13_TrackerCreated ==
    [][(/\ Handles("c1")
        /\ Get(portfolio, BuyKey(Upd)) > 0
        /\ StopKey(Upd) \notin DOMAIN token_trackers) =>
        /\ StopKey(Upd) \in DOMAIN token_trackers'
        /\ token_trackers'[StopKey(Upd)].market_cap_high = Upd.market_cap
        /\ token_trackers'[StopKey(Upd)].last_market_cap = Upd.market_cap
      ]_vars

\* C14: once the tracker of a held token has taken in an update, the stop-loss
\* triggers if and only if high > 0 and (high - last) / high * 100 >=
\* stop_loss_percentage (compared as (high - last) * 100 >= percentage * high);
\* with high <= 0 it does not trigger.
C14_Trigger ==
    [][HandlesTracked =>
        LET high == HighAfter(Upd)
            lastcap == Upd.market_cap
        IN  /\ (last'.decision = Some("SELL")) <=>
                  (high > 0 /\ (high - lastcap) * 100 >= stop_loss_percentage * high)
            /\ high <= 0 => last'.decision = None
      ]_vars

\* C14 witness: with a percentage of 20 the update 120 has triggered the
\* stop-loss of a token whose high was 150.
C14_Witness ==
    /\ last.op = "market_cap"
    /\ last.decision = Some("SELL")
    /\ last.trade # None
    /\ last.trade[1].token[1].market_cap = Some(120)

\* C15: an update m to an existing tracker sets last = m and high =
\* max(high, m), so high does not decrease; every tracker has high >= last.
C15_Ratchet ==
    [][/\ \A k \in DOMAIN token_trackers' :
            token_trackers'[k].market_cap_high >= token_trackers'[k].last_market_cap
       /\ (/\ Handles("c1")
           /\ StopKey(Upd) \in DOMAIN token_trackers
           /\ StopKey(Upd) \in DOMAIN token_trackers') =>
            LET old == token_trackers[StopKey(Upd)]
                new == token_trackers'[StopKey(Upd)]
            IN  /\ new.last_market_cap = Upd.market_cap
                /\ new.market_cap_high = Max(old.market_cap_high, Upd.market_cap)
                /\ new.market_cap_high >= old.market_cap_high
      ]_vars

\* C15 witness: after 150, the lower update 135 has been recorded: last is
\* 135 and high is still 150.
C15_Witness ==
    /\ last.op = "market_cap"
    /\ last.result = "tracking"
    /\ <<"solana", "tk1">> \in DOMAIN token_trackers
    /\ token_trackers[<<"solana", "tk1">>].market_cap_high = 150
    /\ token_trackers[<<"solana", "tk1">>].last_market_cap = 135

\* C16: when the stop-loss triggers, the trade handed to the SELL action has
\* the bot's full position as its quantity, and the token's tracker is gone
\* when the handling of the update ends, also when no SELL action is
\* registered or the SELL action fails.
C16_SellAndForget ==
    [][(HandlesTracked /\ last'.decision = Some("SELL")) =>
        /\ ("SELL" \in actions) =>
              /\ last'.trade # None
              /\ last'.trade[1].quantity = get_position(portfolio, StopKey(Upd))
        /\ StopKey(Upd) \notin DOMAIN token_trackers'
      ]_vars

\* C17: on an update for a token in which the bot holds no position, the
\* token has no tracker afterwards (an existing one is discarded, none is
\* created), no SELL is issued, and the ledger and the other trackers are
\* unchanged.
C17_NoPosition ==
    [][(Handles("c1") /\ get_position(portfolio, StopKey(Upd)) <= 0) =>
        /\ StopKey(Upd) \notin DOMAIN token_trackers'
        /\ \A k \in (DOMAIN token_trackers \cup DOMAIN token_trackers')
                        \ {StopKey(Upd)} :
              /\ k \in DOMAIN token_trackers
              /\ k \in DOMAIN token_trackers'
              /\ token_trackers'[k] = token_trackers[k]
        /\ last'.decision = None
        /\ last'.trade = None
        /\ portfolio' = portfolio
      ]_vars

\* C17 witness: the tracker of tk1 has been discarded on an update that found
\* no position, while the tracker of tk2 is still there.
C17_Witness ==
    /\ last.op = "market_cap"
    /\ last.key = <<"solana", "tk1">>
    /\ last.result = "discarded"
    /\ <<"solana", "tk2">> \in DOMAIN token_trackers

-----------------------------------------------------------------------------
(* Claims about the event bus, checked under SpecBus and SpecBusFair *)

\* how many times x occurs in the list
CountIn(list, x) == Cardinality({i \in DOMAIN list : list[i] = x})

\* how many tasks of c's gather that run callback h have had their first run
StartedFor(c, h) ==
    Cardinality({i \in DOMAIN deliveries[c].status :
                    /\ deliveries[c].coroutines[i] = h
                    /\ deliveries[c].status[i] # "pending"})

\* C18: publish hands the event to the callbacks subscribed for its kind at
\* the time of the call, once per subscription and to no other callback;
\* subscribing or unsubscribing during the delivery changes nothing for this
\* event, and no task of the delivery is dropped.
C18_Delivery ==
    "c1" \in DOMAIN deliveries =>
        LET d == deliveries["c1"]
        IN  /\ d.coroutines = d.at_call
            /\ \A i \in DOMAIN d.status :
                  d.status[i] \in {"pending", "suspended", "done", "failed"}
            /\ \A h \in Callbacks :
                  /\ CountIn(received[h], "c1") = StartedFor("c1", h)
                  /\ "pending" \notin Statuses("c1") =>
                        CountIn(received[h], "c1") = CountIn(d.at_call, h)

\* C18 witness: the event went to the two callbacks subscribed at the call,
\* once each; both have unsubscribed since and a third has subscribed during
\* the delivery without getting the event.
C18_Witness ==
    /\ "c1" \in DOMAIN deliveries
    /\ deliveries["c1"].at_call = <<"good", "slow">>
    /\ deliveries["c1"].status = <<"done", "done">>
    /\ subscribers["RAY_BOT"] = <<"bad">>
    /\ received["good"] = <<"c1">>
    /\ received["slow"] = <<"c1">>
    /\ received["bad"] = <<>>

\* the callbacks other than the raising one have all run to their end, each
\* having got the event once per subscription it had at the call
OthersComplete(c) ==
    /\ \A i \in DOMAIN deliveries[c].status :
          deliveries[c].coroutines[i] # "bad" => deliveries[c].status[i] = "done"
    /\ \A h \in Callbacks \ {"bad"} :
          CountIn(received[h], c) = CountIn(deliveries[c].at_call, h)

\* C19: once a callback of a publish call has raised, or is waiting, every
\* other callback subscribed at the call is still run and runs to its end,
\* having got the event exactly as it would have without the failing one.
C19_Independent ==
    ("c1" \in DOMAIN deliveries
        /\ Statuses("c1") \cap {"failed", "suspended"} # {})
    ~> ("c1" \in DOMAIN deliveries /\ OthersComplete("c1"))

\* C19 witness: the first callback has raised, publish has raised to its
\* caller, and the slow callback subscribed after it has run to its end.
C19_Witness ==
    /\ "c1" \in DOMAIN deliveries
    /\ deliveries["c1"].at_call = <<"bad", "slow">>
    /\ deliveries["c1"].status = <<"failed", "done">>
    /\ pc["c1"] = "raised"
    /\ received["slow"] = <<"c1">>

\* C20: when the caller of publish resumes (publish has returned or raised),
\* every task of that publish call has finished or failed.
C20_CompletionLast ==
    ("c1" \in DOMAIN deliveries /\ pc["c1"] \in {"returned", "raised"}) =>
        Statuses("c1") \subseteq {"done", "failed"}

-----------------------------------------------------------------------------
(* Claims about bots on the bus, checked under SpecBots *)

InList(x, list) == \E i \in 1..Len(list) : list[i] = x

\* C21: once unsubscribe_all has been called on a bot (as remove_bot does),
\* after any sequence of set_strategy calls, no subscriber list of the bus
\* holds a callback of that bot.
C21_Decommissioned ==
    last.op = "unsubscribe_all" =>
        \A kind \in EventKinds : ~InList(last.key, subscribers[kind])

\* C22: an exception raised by a strategy while a bot handles an event stays
\* inside handle_event: no task of the delivery fails, so publish does not
\* raise, and when publish returns every bot subscribed at the call has run
\* its handler to the end, once per subscription, whatever the others did.
C22_Boundary ==
    \A c \in DOMAIN deliveries :
        /\ "failed" \notin Statuses(c)
        /\ "cancelled" \notin Statuses(c)
        /\ pc[c] # "raised"
        /\ pc[c] = "returned" =>
              /\ Statuses(c) \subseteq {"done"}
              /\ \A b \in BotNames :
                    Len(received[b]) = CountIn(deliveries[c].at_call, b)

\* a publish call has returned after a delivery to two bots, in which the
\* strategy of one raised and the strategy of the other ran
C22_Witness ==
    /\ pc["c1"] = "returned"
    /\ "c1" \in DOMAIN deliveries
    /\ \E a, b \in BotNames :
          /\ a # b
          /\ InList(a, deliveries["c1"].at_call)
          /\ InList(b, deliveries["c1"].at_call)
          /\ InList("error_logged", received[a])
          /\ InList("executed", received[b])

-----------------------------------------------------------------------------
(* Claims about the bot manager, checked under SpecManager *)

Count(token_key) == get_token_subscriber_count(token_subscribers, token_key)

CountAfter(token_key) ==
    get_token_subscriber_count(token_subscribers', token_key)

\* the poller tracks a pair iff the manager counts a subscriber for it
Tracked ==
    \A token_key \in ManagedPairs :
        /\ token_key \in subscribed_tokens <=> Count(token_key) > 0
        /\ token_key \in DOMAIN token_subscribers =>
               token_subscribers[token_key] > 0

\* C23: after any subscribe_token / unsubscribe_token (and remove_bot) calls
\* the poller tracks a pair iff its count is above 0 and no count is below 1;
\* subscribe_token adds one to the pair's count and calls poller.subscribe
\* exactly when the count was 0; unsubscribe_token of a counted pair takes one
\* off and calls poller.unsubscribe exactly when the count becomes 0; for a
\* pair that is not counted it changes nothing; other pairs are untouched.
C23_Refcount ==
    [][/\ Tracked'
       /\ last'.op = "subscribe_token" =>
             /\ CountAfter(last'.key) = Count(last'.key) + 1
             /\ last'.result = "subscribe" <=> Count(last'.key) = 0
             /\ last'.result \in {"subscribe", "none"}
             /\ last'.key \in subscribed_tokens'
       /\ last'.op = "unsubscribe_token" =>
             IF Count(last'.key) = 0
             THEN /\ UNCHANGED <<token_subscribers, subscribed_tokens>>
                  /\ last'.result = "none"
             ELSE /\ CountAfter(last'.key) = Count(last'.key) - 1
                  /\ last'.result = "unsubscribe" <=> CountAfter(last'.key) = 0
                  /\ last'.result \in {"unsubscribe", "none"}
       /\ last'.op \in {"subscribe_token", "unsubscribe_token"} =>
             \A other \in ManagedPairs \ {last'.key} :
                 /\ CountAfter(other) = Count(other)
                 /\ other \in subscribed_tokens' <=> other \in subscribed_tokens
      ]_vars

\* a pair subscribed for two bots, after the first unsubscribe_token: the
\* count is 1 and the poller still tracks the pair
C23_Witness ==
    /\ last.op = "unsubscribe_token"
    /\ last.result = "none"
    /\ Count(last.key) = 1
    /\ last.key \in subscribed_tokens
    /\ Cardinality({b \in BotNames : last.key \in held[b]}) = 1

\* C24: after remove_bot(name) has removed a bot, every pair has lost exactly
\* the subscriptions made for that bot: a pair's count is the number of
\* remaining bots it was subscribed for, and the poller tracks it iff one is
\* left.
C24_RemoveBot ==
    (last.op = "remove_bot" /\ last.result = "removed") =>
        \A token_key \in ManagedPairs :
            /\ Count(token_key) =
                   Cardinality({b \in BotNames : token_key \in held[b]})
            /\ token_key \in subscribed_tokens <=>
                   \E b \in BotNames : token_key \in held[b]

-----------------------------------------------------------------------------
(* Claims about a poll cycle, checked under SpecCycle and SpecCycleFair *)

Batch(i) == batch_tasks["t1"][i]

BatchIds == DOMAIN batch_tasks["t1"]

\* the places (batch, position) at which a pair appears in the batches
PlacesOf(pair) ==
    {<<i, k>> \in BatchIds \X (1..BATCH_SIZE) :
        /\ k <= Len(Batch(i).batch)
        /\ Batch(i).network = pair[1]
        /\ Batch(i).batch[k] = pair[2]}

\* each pair tracked at the start of the cycle is in exactly one batch, and
\* a batch holds 1 to BATCH_SIZE addresses, all tracked under its network
BatchesCover ==
    /\ \A pair \in loop_tasks["t1"].tracked : Cardinality(PlacesOf(pair)) = 1
    /\ \A i \in BatchIds :
          /\ Len(Batch(i).batch) \in 1..BATCH_SIZE
          /\ \A k \in 1..Len(Batch(i).batch) :
                <<Batch(i).network, Batch(i).batch[k]>>
                    \in loop_tasks["t1"].tracked

FetchesOf(i) == {n \in 1..Len(fetches) : fetches[n].task = <<"t1", i>>}

\* one fetch per batch whose task has started, for the batch's network and
\* addresses, and none for a task that has not started
FetchOnce ==
    \A i \in BatchIds :
        IF Batch(i).status = "pending"
        THEN FetchesOf(i) = {}
        ELSE /\ Cardinality(FetchesOf(i)) = 1
             /\ \A n \in FetchesOf(i) :
                   /\ fetches[n].network = Batch(i).network
                   /\ fetches[n].batch = Batch(i).batch

PublishedBy(i) ==
    IF <<"t1", i>> \in DOMAIN published THEN published[<<"t1", i>>] ELSE <<>>

HasBaseToken(pair) == pair.baseToken # None

CapOf(pair) ==
    IF pair.baseToken[1].marketCap = None THEN 0
    ELSE pair.baseToken[1].marketCap[1][2]

IsNumeric(pair) ==
    HasBaseToken(pair) =>
        \/ pair.baseToken[1].marketCap = None
        \/ pair.baseToken[1].marketCap[1][1] = "number"

\* the events due for a well-formed response: one per pair with a baseToken
EventsDue(network, pairs) ==
    LET usable == SelectSeq(pairs, HasBaseToken)
    IN  [k \in 1..Len(usable) |->
            [network |-> network, address |-> usable[k].baseToken[1].address,
             market_cap |-> CapOf(usable[k])]]

Finished(i) == Batch(i).status \in {"done", "logged"}

\* C25: in every poll cycle each pair tracked at its start is in exactly one
\* batch, a batch holds at most BATCH_SIZE addresses of one network, one
\* fetch is issued per batch, and a batch task that ends without an error
\* has published one MARKET_CAP_UPDATE event for each returned pair that has
\* a baseToken (market cap 0 when the pair carries none), in the order
\* returned; a batch whose fetch or processing failed has published nothing.
C25_Cycle ==
    /\ BatchesCover
    /\ FetchOnce
    /\ \A i \in BatchIds :
          /\ Batch(i).status = "done" =>
                PublishedBy(i) = EventsDue(Batch(i).network, Batch(i).pairs[1])
          /\ Batch(i).status # "done" => PublishedBy(i) = <<>>
          /\ (Batch(i).status = "logged" /\ Batch(i).pairs # None) =>
                \E k \in 1..Len(Batch(i).pairs[1]) :
                    ~IsNumeric(Batch(i).pairs[1][k])

\* a cycle over three batches of two networks has ended, every batch has
\* published, one of them after skipping a pair without baseToken
C25_Witness ==
    /\ loop_tasks["t1"].status = "sleeping"
    /\ Cardinality(BatchIds) = 3
    /\ \E i, j \in BatchIds : Batch(i).network # Batch(j).network
    /\ \A i \in BatchIds : Batch(i).status = "done" /\ PublishedBy(i) # <<>>
    /\ \E i \in BatchIds :
          /\ Len(Batch(i).batch) = BATCH_SIZE
          /\ \E k \in 1..Len(Batch(i).pairs[1]) :
                ~HasBaseToken(Batch(i).pairs[1][k])

\* C25 as stated: one event for each record returned by a successful fetch
C25_EveryRecord ==
    /\ BatchesCover
    /\ FetchOnce
    /\ \A i \in BatchIds :
          (Finished(i) /\ Batch(i).pairs # None) =>
              Len(PublishedBy(i)) = Len(Batch(i).pairs[1])

\* C26: a batch whose fetch or processing fails ends on its own: the step
\* leaves every other batch task, the events published and the loop as they
\* were, no batch task is ever cancelled or left with an exception, a cycle
\* ends only when every batch has been fetched and has ended, with the events
\* of the batches that did not fail published; and from a failure the cycle
\* goes on to that end.
C26_Isolated ==
    /\ [][/\ \A i \in BatchIds :
                (Batch(i).status = "fetching" /\ i \in DOMAIN batch_tasks'["t1"]
                 /\ batch_tasks'["t1"][i].status \notin {"fetching", "done",
                                                        "publishing"}) =>
                    /\ batch_tasks'["t1"][i].status = "logged"
                    /\ \A j \in BatchIds \ {i} :
                          batch_tasks'["t1"][j] = batch_tasks["t1"][j]
                    /\ UNCHANGED <<loop_tasks, published, fetches>>
          /\ (loop_tasks["t1"].status = "cycle"
              /\ loop_tasks'["t1"].status # "cycle") =>
                    /\ loop_tasks'["t1"].status = "sleeping"
                    /\ \A j \in BatchIds :
                          /\ Finished(j)
                          /\ Cardinality(FetchesOf(j)) = 1
                          /\ Batch(j).status = "done" =>
                                PublishedBy(j) = Batch(j).update_tasks
         ]_vars
    /\ (\E i \in BatchIds :
            loop_tasks["t1"].status = "cycle" /\ Batch(i).status = "logged")
       ~> (loop_tasks["t1"].status = "sleeping"
           /\ \A j \in BatchIds : Finished(j))

\* a cycle has ended in which one batch failed and another published
C26_Witness ==
    /\ loop_tasks["t1"].status = "sleeping"
    /\ \E i, j \in BatchIds :
          /\ Batch(i).status = "logged"
          /\ Batch(j).status = "done"
          /\ PublishedBy(j) # <<>>

-----------------------------------------------------------------------------
(* Claims about the polling loop, checked under SpecPolling *)

Alive(t) == loop_tasks[t].status # "cancelled"

\* C27: when stop_polling has returned and start_polling has not been called
\* since, the poller holds no task reference and every loop task has ended.
C27_Stopped ==
    last.op = "stop_polling" =>
        /\ polling_task = None
        /\ \A t \in DOMAIN loop_tasks : ~Alive(t)

\* C28: at most one polling loop is alive and at most one cycle is in flight
\* at any time, however often start_polling is called.
C28_OneLoop ==
    /\ Cardinality({t \in DOMAIN loop_tasks : Alive(t)}) <= 1
    /\ Cardinality({t \in DOMAIN loop_tasks :
                       loop_tasks[t].status = "cycle"}) <= 1

-----------------------------------------------------------------------------
(* Claims about two bots on one bus, checked under SpecTwoBots *)

\* C29: accumulators, drawdown trackers and ledgers are per bot: whatever has
\* been delivered to both bots, the second bot's accumulators, trackers and
\* portfolio are the ones it has in a process where the first bot does not
\* exist.
C29_PerBot ==
    /\ AccumulatorsOf(bots, "b2") = AccumulatorsOf(snap.bots, "b2")
    /\ TrackersOf(bots, "b2") = TrackersOf(snap.bots, "b2")
    /\ bots["b2"].portfolio = snap.bots["b2"].portfolio

-----------------------------------------------------------------------------
(* Claims about the sizing strategy, checked under SpecSizing *)

\* the token_meta has a market cap and a price that is not 0
Sizable(token_meta) == token_meta.market_cap # None /\ Truthy(token_meta.price)

\* maxQuantity * min(marketCap, maxMarketCap) / maxMarketCap
TargetQuantity(market_cap) ==
    (max_quantity * (IF market_cap < max_market_cap THEN market_cap
                     ELSE max_market_cap)) \div max_market_cap

Sized == last.op = "get_position_size"

\* C30: for a token_meta that carries a market cap and a price that is not 0,
\* get_position_size returns maxQuantity * min(marketCap, maxMarketCap) /
\* maxMarketCap: it is non-decreasing in marketCap, equals maxQuantity for
\* every marketCap >= maxMarketCap, half of it at half of maxMarketCap and 0 at
\* market cap 0.  For a token_meta without market cap, or whose price is
\* missing or 0, it returns 0.
C30_Sizing ==
    Sized =>
        /\ \A i \in 1..2 :
            LET token_meta == call[i]
                quantity == last.result[i]
            IN  IF ~Sizable(token_meta) THEN quantity = 0
                ELSE LET market_cap == token_meta.market_cap[1]
                     IN  /\ quantity = TargetQuantity(market_cap)
                         /\ market_cap >= max_market_cap => quantity = max_quantity
                         /\ 2 * market_cap = max_market_cap
                                => 2 * quantity = max_quantity
                         /\ market_cap = 0 => quantity = 0
        /\ (/\ Sizable(call[1])
            /\ Sizable(call[2])
            /\ call[1].market_cap[1] <= call[2].market_cap[1])
                => last.result[1] <= last.result[2]

\* a market cap below maxMarketCap and one above it have been sized: the
\* second gets maxQuantity, the first less
C30_Witness ==
    /\ Sized
    /\ Sizable(call[1])
    /\ Sizable(call[2])
    /\ 0 < call[1].market_cap[1]
    /\ call[1].market_cap[1] < max_market_cap
    /\ call[2].market_cap[1] > max_market_cap
    /\ 0 < last.result[1]
    /\ last.result[1] < last.result[2]
    /\ last.result[2] = max_quantity

\* C30 as stated: whatever the token_meta's price, a token_meta with a market
\* cap is sized by the formula, non-decreasing in the market cap and
\* maxQuantity from maxMarketCap on.
C30_AnyPrice ==
    Sized =>
        /\ \A i \in 1..2 :
            call[i].market_cap # None =>
                LET market_cap == call[i].market_cap[1]
                IN  /\ last.result[i] = TargetQuantity(market_cap)
                    /\ market_cap >= max_market_cap
                            => last.result[i] = max_quantity
        /\ (/\ call[1].market_cap # None
            /\ call[2].market_cap # None
            /\ call[1].market_cap[1] <= call[2].market_cap[1])
                => last.result[1] <= last.result[2]

\* the value is missing, 0 or negative
NonPositive(o) == o = None \/ o[1] <= 0

\* C31: get_position_size returns 0 whenever the token's market cap or its
\* price is missing or non-positive, a negative market cap and a negative
\* price included.
C31_ZeroWithoutInput ==
    Sized =>
        \A i \in 1..2 :
            (NonPositive(call[i].market_cap) \/ NonPositive(call[i].price))
                => last.result[i] = 0

-----------------------------------------------------------------------------
(* Claims about the resolution of a BUY intent, checked under SpecIntent *)

\* the handler of a signal has run and has decided to buy
BuyDecided == HandleSignal /\ last'.decision = Some(SignalBUY)

\* C32: on a threshold-crossing BUY the quantity handed to the Buy action is
\* notional / price, the notional being the sizing function of the token's
\* market cap; when the price or the sizing result is missing or non-positive
\* no trade is handed to the Buy action and the ledger is unchanged.
C32_BuyQuantity ==
    [][BuyDecided =>
        LET meta == token_accumulators'[TK1].token_meta
            notional == get_position_size(meta)
        IN  IF NonPositive(meta.price) \/ notional <= 0
            THEN last'.trade = None /\ portfolio' = portfolio
            ELSE /\ last'.trade # None
                 /\ last'.trade[1].quantity * meta.price[1] = notional]_vars

-----------------------------------------------------------------------------
(* Claims about publish calls awaited one after the other, checked under     *)
(* SpecSequential *)

\* the tasks of publish call c that run handler h
TasksOf(c, h) ==
    IF c \notin DOMAIN deliveries THEN {}
    ELSE {i \in DOMAIN deliveries[c].status : deliveries[c].coroutines[i] = h}

\* C33: when the caller awaits each publish call before issuing the next, a
\* handler gets the events in the order of the publish calls, and it has
\* finished handling the event of the first call whenever it has started
\* handling the event of the second.
C33_InOrder ==
    \A h \in Callbacks :
        /\ received[h] \in {<<>>, <<"c1">>, <<"c1", "c1">>, <<"c1", "c2">>,
                            <<"c1", "c1", "c2">>, <<"c1", "c1", "c2", "c2">>}
        /\ (\E i \in TasksOf("c2", h) : deliveries["c2"].status[i] # "pending")
                => \A j \in TasksOf("c1", h) :
                        deliveries["c1"].status[j] \in {"done", "failed"}

-----------------------------------------------------------------------------
(* More claims about the stop-loss, checked under SpecStop *)

\* C34: the stop-loss fires at most once per position: when an update has
\* triggered it on a bot that has a SELL action, the bot's position in the
\* token is 0 once the update is handled, so that the next updates for the
\* token find nothing to track and nothing to sell until a buy opens a new
\* position.
C34_FiresOnce ==
    [][(/\ HandlesTracked
        /\ "SELL" \in actions
        /\ last'.decision = Some("SELL")) =>
        /\ get_position(portfolio', StopKey(Upd)) = 0
        /\ get_position(portfolio', BuyKey(Upd)) = 0
      ]_vars

-----------------------------------------------------------------------------
(* More claims about bots on the bus, checked under SpecBots *)

\* C35: after any sequence of set_strategy and remove_strategy calls the bus
\* holds one subscription of a bot for an event kind when the bot has a
\* strategy for the kind and none otherwise, and a published event gives the
\* bot one handler run.
C35_OneSubscription ==
    \A b \in BotNames :
        /\ \A kind \in EventKinds :
            CountIn(subscribers[kind], b) =
                (IF kind \in DOMAIN bots[b].strategies THEN 1 ELSE 0)
        /\ \A c \in DOMAIN deliveries :
            CountIn(deliveries[c].coroutines, b) <= 1

-----------------------------------------------------------------------------
(* More claims about the copy strategy, checked under SpecCopy *)

\* C36: whenever no handler is in the middle of a signal, every accumulator
\* has its buy weight below the buy threshold and its sell weight below the
\* sell threshold; the signal that made a weight reach or pass its threshold
\* has left that weight at exactly 0.
C36_BelowThresholds ==
    /\ \A k \in DOMAIN token_accumulators :
        /\ token_accumulators[k].buy_weight < buy_threshold
        /\ token_accumulators[k].sell_weight < sell_threshold
    /\ (last.op = "signal" /\ last.decision = Some(SignalBUY))
            => token_accumulators[last.key].buy_weight = 0
    /\ (last.op = "signal" /\ last.decision = Some(SignalSELL))
            => token_accumulators[last.key].sell_weight = 0

\* a signal has just made the buy weight of a token cross the threshold while
\* sell weight was accumulated for the same token
C36_Witness ==
    /\ last.op = "signal"
    /\ last.decision = Some(SignalBUY)
    /\ token_accumulators[last.key].buy_weight = 0
    /\ token_accumulators[last.key].sell_weight > 0

-----------------------------------------------------------------------------
(* Claims about the polling loop going from cycle to cycle, checked under    *)
(* SpecLoopFair *)

\* every pair tracked when the cycle in flight started has been fetched
TrackedFetched ==
    \A pair \in loop_tasks["t1"].tracked :
        \E n \in 1..Len(fetches) :
            /\ fetches[n].network = pair[1]
            /\ \E k \in 1..Len(fetches[n].batch) : fetches[n].batch[k] = pair[2]

Sleeping == loop_tasks["t1"].status = "sleeping"

InCycle == loop_tasks["t1"].status = "cycle"

\* C37: a batch is fetched once in its cycle, also when it fails; and the
\* loop stays live: when a cycle is over, with or without a failed batch, a
\* next cycle starts and fetches every pair that was tracked when it
\* started.
C37_LoopLive ==
    /\ [](\A i \in BatchIds : Cardinality(FetchesOf(i)) <= 1)
    /\ Sleeping ~> (InCycle /\ TrackedFetched)

\* a cycle in which a batch failed is over: the batch was fetched once, every
\* tracked pair was fetched, and the loop sleeps until the next cycle
C37_Witness ==
    /\ Sleeping
    /\ TrackedFetched
    /\ loop_tasks["t1"].tracked = FirstPairs \cup {OtherPair}
    /\ \E i \in BatchIds :
          /\ Batch(i).status = "logged"
          /\ Cardinality(FetchesOf(i)) = 1

-----------------------------------------------------------------------------
(* Claims about the token data a threshold-triggered trade is made with,     *)
(* checked under SpecCopy *)

\* the signal the handler of caller c1 is given
SignalAtHand == tasks["c1"].event

\* C38: an accumulator is created by a valid signal for its token and keeps
\* the token data of that signal: no later signal replaces them.  The trade
\* made when a threshold is crossed carries the token data and the price of
\* the accumulator, and a BUY is sized by the market cap and the price of the
\* accumulator, whatever token data the crossing signal carries.
C38_FirstTokenData ==
    [][HandleSignal =>
        /\ \A k \in DOMAIN token_accumulators :
              /\ k \in DOMAIN token_accumulators'
              /\ token_accumulators'[k].token_meta
                     = token_accumulators[k].token_meta
        /\ \A k \in DOMAIN token_accumulators' \ DOMAIN token_accumulators :
              /\ validate_signal(SignalAtHand)
              /\ k = KeyOf(SignalAtHand.token[1])
              /\ token_accumulators'[k].token_meta = SignalAtHand.token[1]
        /\ last'.trade # None =>
              LET meta == token_accumulators'[last'.key].token_meta
              IN  /\ last'.trade[1].token = Some(meta)
                  /\ last'.trade[1].price = meta.price
                  /\ last'.decision = Some(SignalBUY) =>
                        last'.trade[1].quantity
                            = get_position_size(meta) \div meta.price[1]]_vars

\* a trade has just been handed to an action with token data that differ
\* from those of the signal that crossed the threshold
C38_Witness ==
    /\ last.op = "signal"
    /\ last.trade # None
    /\ "c1" \in DOMAIN tasks
    /\ tasks["c1"].status = "done"
    /\ SignalAtHand.token # None
    /\ SignalAtHand.token[1] # last.trade[1].token[1]
    /\ SignalAtHand.token[1].price # last.trade[1].price

-----------------------------------------------------------------------------
(* Claims about the two sides of an accumulator, checked under SpecReopen *)

\* the handler has just crossed the threshold of one side for token key k
Crossing(k, side) ==
    /\ HandleSignal
    /\ last'.key = k
    /\ last'.decision = Some(side)

\* the weight a SELL signal of a known trader for a held token k brings
SellWeightAtHand(k) ==
    IF /\ "c1" \in DOMAIN tasks
       /\ validate_signal(tasks["c1"].event)
       /\ tasks["c1"].event.action = Some(SignalSELL)
       /\ KeyOf(tasks["c1"].event.token[1]) = k
       /\ Get(portfolio, k) > 0
    THEN trader_weights[tasks["c1"].event.wallet[1]]
    ELSE 0

\* C39: a side of an accumulator goes down only by the crossing of its own
\* threshold, which sets it to 0: a BUY crossing leaves sell_weight as it
\* was and a SELL crossing leaves buy_weight as it was.  Nothing else takes
\* weight away: closing a position leaves the accumulators alone, and the
\* sell weight held since before counts in full toward the sell threshold
\* when SELL signals are handled after the position was reopened.
C39_OwnCrossingOnly ==
    [][\A k \in DOMAIN token_accumulators :
          /\ k \in DOMAIN token_accumulators'
          /\ LET old == token_accumulators[k]
                 new == token_accumulators'[k]
             IN  /\ new.token_meta = old.token_meta
                 /\ new.buy_weight < old.buy_weight =>
                       Crossing(k, SignalBUY) /\ new.buy_weight = 0
                 /\ new.sell_weight < old.sell_weight =>
                       Crossing(k, SignalSELL) /\ new.sell_weight = 0
                 /\ Crossing(k, SignalBUY) => new.sell_weight = old.sell_weight
                 /\ Crossing(k, SignalSELL) => new.buy_weight = old.buy_weight
                 /\ ~HandleSignal => new = old
                 /\ HandleSignal =>
                       LET sum == old.sell_weight + SellWeightAtHand(k)
                       IN  /\ Crossing(k, SignalSELL) <=>
                                 /\ SellWeightAtHand(k) > 0
                                 /\ sum >= sell_threshold
                           /\ ~Crossing(k, SignalSELL) => new.sell_weight = sum
    ]_vars

\* a buy has just reopened a position that had been closed, and the sell
\* weight accumulated while the token was held before is still there
C39_Witness ==
    /\ last.op = "signal"
    /\ last.decision = Some(SignalBUY)
    /\ last.result = "bought"
    /\ Get(portfolio, last.key) = last.trade[1].quantity
    /\ token_accumulators[last.key].buy_weight = 0
    /\ token_accumulators[last.key].sell_weight > 0

-----------------------------------------------------------------------------
(* Claims about the name-to-action map, checked under SpecActions *)

\* C40: get_action(n) called for a name n under which an action was
\* registered returns the action last registered under n, whatever the
\* letter case of n.
C40_RoundTrip ==
    (last.op = "get_action" /\ last.key \in DOMAIN actions)
        => last.result = Some(actions[last.key])

====
